----------------------------- MODULE StoreProofs ------------------------------
(***************************************************************************)
(* Two stores that many workers fill, each of them with what others want   *)
(* too: the compressed copies of mod_compress, and the images that         *)
(* mod_fastdfs makes of others.  Who makes a copy: however many workers    *)
(* want the same one, at most one writes it, and what nobody writes is     *)
(* whole, was removed, or belongs to a worker that died.                   *)
(***************************************************************************)
EXTENDS Compress, SequenceTheorems, StepLemmas

CONSTANTS Masters, SizeOf(_), filesizes, filetypes, enable, MaxFaults, MaxDeletions
VARIABLES files, jobs, faults, deletions
X == INSTANCE Fastdfs WITH work <- jobs

Keys == Encodings \X Versions
Full == {"pc", "request", "etag", "encoding"}
States == {"plain", "open", "buffer", "deflate", "written", "cached", "answered"}
Copying == {"open", "deflate", "written", "cached"}
Copies == [of : 0..MaxVersion, whole : BOOLEAN, writer : Workers \cup {"none", "dead"}]

Busy(w) == DOMAIN work[w] = Full /\ work[w].pc \in States
Keyed(w) == work[w].pc \in Copying => Key(w) \in Keys
Writes(w, k) == work[w].pc \in {"deflate", "written"} /\ Key(w) = k

Workings == DOMAIN work = Workers /\ \A w \in Workers : (work[w] = Idle \/ Busy(w)) /\ Keyed(w)
Known == recent \subseteq Versions /\ DOMAIN file = {"version", "size", "type"} /\ file.version \in Versions
Stored == cache \in [Keys -> Copies]
\* the copy names its worker just as long as this one is at it
Owned == \A k \in Keys, w \in Workers : cache[k].writer = w <=> Writes(w, k)
Finished == \A k \in Keys : ~cache[k].whole /\ cache[k].writer = "none" => cache[k] = NoCopy

CopyInv == Workings /\ Known /\ Stored /\ Owned /\ Finished

(***************************************************************************)
(* A worker that is not at writing, before and after, changes nothing that *)
(* matters to the others.                                                  *)
(***************************************************************************)
LEMMA Elsewhere ==
    ASSUME CopyInv, NEW w \in Workers, UNCHANGED <<cache, file, recent>>,
           work[w].pc \notin {"deflate", "written"},
           (work[w].pc \notin {"deflate", "written"})',
           DOMAIN work' = Workers, \A v \in Workers \ {w} : work'[v] = work[v],
           (work[w] = Idle \/ Busy(w))', Keyed(w)'
    PROVE  CopyInv'
<1>1. Workings'
    <2>1. \A v \in Workers : (work[v] = Idle \/ Busy(v))' /\ Keyed(v)'
        <3> TAKE v \in Workers
        <3>1. CASE v = w BY <3>1
        <3>2. CASE v # w BY <3>2 DEF CopyInv, Workings, Busy, Keyed, Key, Keys
        <3> QED BY <3>1, <3>2
    <2> QED BY <2>1 DEF Workings
<1>2. Known' /\ Stored' /\ Finished' BY DEF CopyInv, Known, Stored, Finished, Keys, Copies
<1>3. Owned'
    <2> SUFFICES ASSUME NEW k \in Keys, NEW v \in Workers
                 PROVE  (cache[k].writer = v <=> Writes(v, k))'
        BY DEF Owned, Keys
    <2>1. Writes(v, k)' <=> Writes(v, k)
        <3>1. CASE v = w BY <3>1 DEF Writes
        <3>2. CASE v # w BY <3>2 DEF Writes, Key
        <3> QED BY <3>1, <3>2
    <2> QED BY <2>1 DEF CopyInv, Owned
<1> QED BY <1>1, <1>2, <1>3 DEF CopyInv

(***************************************************************************)
(* A worker that owns a copy, or finds that nobody has one, changes this   *)
(* copy; it stays its own as long as the worker is at writing.             *)
(***************************************************************************)
LEMMA OwnCopy ==
    ASSUME CompressAssumption, CopyInv, NEW w \in Workers, UNCHANGED <<file, recent>>,
           Key(w) \in Keys, cache[Key(w)].writer \in {w, "none"},
           DOMAIN work' = Workers, \A v \in Workers \ {w} : work'[v] = work[v],
           Busy(w)', Keyed(w)', Key(w)' = Key(w),
           NEW c \in Copies, cache' = [cache EXCEPT ![Key(w)] = c],
           c.writer \in {w, "none"}, c.writer = w <=> work'[w].pc \in {"deflate", "written"},
           ~c.whole /\ c.writer = "none" => c = NoCopy
    PROVE  CopyInv'
<1>1. Workings'
    <2>1. \A v \in Workers : (work[v] = Idle \/ Busy(v))' /\ Keyed(v)'
        <3> TAKE v \in Workers
        <3>1. CASE v = w BY <3>1
        <3>2. CASE v # w BY <3>2 DEF CopyInv, Workings, Busy, Keyed, Key, Keys
        <3> QED BY <3>1, <3>2
    <2> QED BY <2>1 DEF Workings
<1>2. Known' BY DEF CopyInv, Known
<1>3. cache'[Key(w)] = c /\ \A k \in Keys \ {Key(w)} : cache'[k] = cache[k] BY DEF CopyInv, Stored
<1>4. Stored' BY <1>3 DEF CopyInv, Stored, Keys, Copies
<1>5. Owned'
    <2> SUFFICES ASSUME NEW k \in Keys, NEW v \in Workers
                 PROVE  (cache[k].writer = v <=> Writes(v, k))'
        BY DEF Owned, Keys
    <2>1. CASE v = w /\ k = Key(w) BY <1>3, <2>1 DEF Writes
    <2>2. CASE v = w /\ k # Key(w)
        <3>1. ~Writes(w, k) /\ ~Writes(w, k)' BY <2>2 DEF Writes
        <3> QED BY <1>3, <2>2, <3>1 DEF CopyInv, Owned
    <2>3. CASE v # w
        <3>1. Writes(v, k)' <=> Writes(v, k) BY <2>3 DEF Writes, Key
        <3>2. k = Key(w) => cache[k].writer # v /\ cache'[k].writer # v
            BY <1>3, <2>3 DEF CompressAssumption
        <3> QED BY <1>3, <3>1, <3>2 DEF CopyInv, Owned
    <2> QED BY <2>1, <2>2, <2>3
<1>6. Finished' BY <1>3 DEF CopyInv, Finished, Keys
<1> QED BY <1>1, <1>2, <1>4, <1>5, <1>6 DEF CopyInv

\* a step from one place to another, of a worker that has a request
LEMMA Going ==
    ASSUME CopyInv, NEW w \in Workers, NEW pc \in States, Goes(w, pc),
           work[w].pc # "idle", pc \in Copying => work[w].pc \in Copying
    PROVE  /\ DOMAIN work' = Workers /\ \A v \in Workers \ {w} : work'[v] = work[v]
           /\ Busy(w)' /\ Keyed(w)' /\ work'[w].pc = pc /\ Key(w)' = Key(w)
<1>1. Busy(w) /\ Keyed(w) BY DEF CopyInv, Workings, Idle
<1>2. DOMAIN work' = Workers /\ \A v \in Workers \ {w} : work'[v] = work[v]
    BY DEF CopyInv, Workings, Goes
<1>3. work'[w] = [work[w] EXCEPT !.pc = pc] BY DEF CopyInv, Workings, Goes
<1>4. work'[w].pc = pc /\ work'[w].encoding = work[w].encoding /\ work'[w].etag = work[w].etag
    BY <1>1, <1>3 DEF Busy, Full
<1>5. Busy(w)' BY <1>1, <1>3, <1>4 DEF Busy, Full
<1>6. Key(w)' = Key(w) BY <1>4 DEF Key
<1> QED BY <1>1, <1>2, <1>4, <1>5, <1>6 DEF Keyed, Keys

-----------------------------------------------------------------------------
LEMMA BestIsOne == ASSUME NEW S PROVE Best(S) \in Encodings
BY DEF Best, Encodings

LEMMA PhysicalKeeps == ASSUME CopyInv, NEW w \in Workers, NEW r, NEW etag \in recent, Physical(w, r, etag) PROVE CopyInv'
<1>1. UNCHANGED <<cache, file, recent>> /\ work[w] = Idle BY DEF Physical
<1>2. PICK pc, encoding : /\ Told(w, pc, r, etag, encoding)
                          /\ pc \in {"plain", "answered", "open", "buffer"}
                          /\ pc = "open" => encoding \in Encodings
    <2> DEFINE best == Best(r.encodings \cap allowed_encodings)
    <2>1. best \in Encodings BY BestIsOne
    <2> HIDE DEF best
    <2>2. \/ Told(w, "plain", r, etag, "none") \/ Told(w, "answered", r, etag, best)
          \/ Told(w, "open", r, etag, best) \/ Told(w, "buffer", r, etag, best)
        BY DEF Physical, best
    <2> QED BY <2>1, <2>2
<1>3. DOMAIN work' = Workers /\ \A v \in Workers \ {w} : work'[v] = work[v]
    BY <1>2 DEF CopyInv, Workings, Told
<1>4. work'[w] = [pc |-> pc, request |-> r, etag |-> etag, encoding |-> encoding]
    BY <1>2 DEF CopyInv, Workings, Told
<1>5. Busy(w)' BY <1>2, <1>4 DEF Busy, Full, States
<1>6. Keyed(w)' BY <1>2, <1>4 DEF Keyed, Key, Keys, Copying, CopyInv, Known
<1>7. (work[w].pc \notin {"deflate", "written"})' BY <1>2, <1>4
<1> QED BY <1>1, <1>3, <1>5, <1>6, <1>7, Elsewhere DEF Idle

(***************************************************************************)
(* open() with O_EXCL: whoever finds no copy owns the one it creates.      *)
(***************************************************************************)
LEMMA CreateKeeps == ASSUME CompressAssumption, CopyInv, NEW w \in Workers, Create(w) PROVE CopyInv'
<1>1. work[w].pc = "open" /\ UNCHANGED <<file, recent>> BY DEF Create, At, Unchanged
<1>2. Key(w) \in Keys BY <1>1 DEF CopyInv, Workings, Keyed, Copying
<1>3. CASE cache[Key(w)] # NoCopy
    <2>1. Goes(w, "cached") /\ UNCHANGED cache BY <1>3 DEF Create
    <2>2. /\ DOMAIN work' = Workers /\ \A v \in Workers \ {w} : work'[v] = work[v]
          /\ Busy(w)' /\ Keyed(w)' /\ work'[w].pc = "cached"
        BY <1>1, <2>1, Going DEF States, Copying
    <2> QED BY <1>1, <2>1, <2>2, Elsewhere
<1>4. CASE cache[Key(w)] = NoCopy
    <2> DEFINE c == [of |-> 0, whole |-> FALSE, writer |-> w]
    <2>1. Goes(w, "deflate") BY <1>4 DEF Create
    <2>2. /\ DOMAIN work' = Workers /\ \A v \in Workers \ {w} : work'[v] = work[v]
          /\ Busy(w)' /\ Keyed(w)' /\ work'[w].pc = "deflate" /\ Key(w)' = Key(w)
        BY <1>1, <2>1, Going DEF States, Copying
    <2>3. cache' = [cache EXCEPT ![Key(w)] = c]
        BY <1>2, <1>4 DEF Create, NoCopy, CopyInv, Stored
    <2>4. c \in Copies BY DEF Copies, CompressAssumption
    <2>5. cache[Key(w)].writer \in {w, "none"} BY <1>4 DEF NoCopy
    <2>6. c.writer = w /\ w # "none" BY DEF CompressAssumption
    <2> HIDE DEF c
    <2> QED BY <1>1, <1>2, <2>2, <2>3, <2>4, <2>5, <2>6, OwnCopy
<1> QED BY <1>3, <1>4

\* who is at writing owns its copy
LEMMA Owner ==
    ASSUME CopyInv, NEW w \in Workers, work[w].pc \in {"deflate", "written"}
    PROVE  Key(w) \in Keys /\ cache[Key(w)].writer = w /\ cache[Key(w)] \in Copies
<1>1. Key(w) \in Keys BY DEF CopyInv, Workings, Keyed, Copying
<1> QED BY <1>1 DEF CopyInv, Owned, Writes, Stored

LEMMA DeflateKeeps == ASSUME CompressAssumption, CopyInv, NEW w \in Workers, Deflate(w) PROVE CopyInv'
<1> DEFINE c == [cache[Key(w)] EXCEPT !.of = file.version]
<1>1. work[w].pc = "deflate" /\ Goes(w, "written") /\ UNCHANGED <<file, recent>> BY DEF Deflate, At, Unchanged
<1>2. Key(w) \in Keys /\ cache[Key(w)].writer = w /\ cache[Key(w)] \in Copies BY <1>1, Owner
<1>3. /\ DOMAIN work' = Workers /\ \A v \in Workers \ {w} : work'[v] = work[v]
      /\ Busy(w)' /\ Keyed(w)' /\ work'[w].pc = "written" /\ Key(w)' = Key(w)
    BY <1>1, Going DEF States, Copying
<1>4. cache' = [cache EXCEPT ![Key(w)] = c] BY DEF Deflate
<1>5. c \in Copies /\ c.writer = w /\ w # "none"
    BY <1>2 DEF Copies, CopyInv, Known, Versions, CompressAssumption
<1> HIDE DEF c
<1> QED BY <1>1, <1>2, <1>3, <1>4, <1>5, OwnCopy

LEMMA CloseKeeps == ASSUME CompressAssumption, CopyInv, NEW w \in Workers, Close(w) PROVE CopyInv'
<1> DEFINE c == [cache[Key(w)] EXCEPT !.whole = TRUE, !.writer = "none"]
<1>1. work[w].pc = "written" /\ Goes(w, "cached") /\ UNCHANGED <<file, recent>> BY DEF Close, At, Unchanged
<1>2. Key(w) \in Keys /\ cache[Key(w)].writer = w /\ cache[Key(w)] \in Copies BY <1>1, Owner
<1>3. /\ DOMAIN work' = Workers /\ \A v \in Workers \ {w} : work'[v] = work[v]
      /\ Busy(w)' /\ Keyed(w)' /\ work'[w].pc = "cached" /\ Key(w)' = Key(w)
    BY <1>1, Going DEF States, Copying
<1>4. cache' = [cache EXCEPT ![Key(w)] = c] BY <1>2 DEF Close, CopyInv, Stored
<1>5. c \in Copies /\ c.writer = "none" /\ c.whole /\ w # "none"
    BY <1>2 DEF Copies, CompressAssumption
<1> HIDE DEF c
<1> QED BY <1>1, <1>2, <1>3, <1>4, <1>5, OwnCopy

\* unlink(): what is left of a copy that failed is nothing
LEMMA FailKeeps == ASSUME CompressAssumption, CopyInv, NEW w \in Workers, Fail(w) PROVE CopyInv'
<1>1. work[w].pc \in {"deflate", "written"} /\ Goes(w, "plain") /\ UNCHANGED <<file, recent>>
    BY DEF Fail, Unchanged
<1>2. Key(w) \in Keys /\ cache[Key(w)].writer = w BY <1>1, Owner
<1>3. /\ DOMAIN work' = Workers /\ \A v \in Workers \ {w} : work'[v] = work[v]
      /\ Busy(w)' /\ Keyed(w)' /\ work'[w].pc = "plain" /\ Key(w)' = Key(w)
    BY <1>1, Going DEF States, Copying
<1>4. cache' = [cache EXCEPT ![Key(w)] = NoCopy] BY DEF Fail, Undone, Unlinked
<1>5. NoCopy \in Copies /\ NoCopy.writer = "none" /\ w # "none" BY DEF Copies, NoCopy, CompressAssumption
<1> QED BY <1>1, <1>2, <1>3, <1>4, <1>5, OwnCopy

LEMMA AnswerKeeps ==
    ASSUME CopyInv, NEW w \in Workers, Buffer(w) \/ BufferFail(w) \/ Send(w) \/ SendPlain(w)
    PROVE  CopyInv'
<1>1. PICK pc \in {"answered", "plain"} : Goes(w, pc) BY DEF Buffer, BufferFail, Send, SendPlain
<1>2. work[w].pc \in {"buffer", "cached", "plain"} /\ UNCHANGED <<cache, file, recent>>
    BY DEF Buffer, BufferFail, Send, SendPlain, At, Unchanged
<1>3. /\ DOMAIN work' = Workers /\ \A v \in Workers \ {w} : work'[v] = work[v]
      /\ Busy(w)' /\ Keyed(w)' /\ work'[w].pc = pc
    BY <1>1, <1>2, Going DEF States, Copying
<1> QED BY <1>1, <1>2, <1>3, Elsewhere

LEMMA DoneKeeps == ASSUME CopyInv, NEW w \in Workers, Done(w) PROVE CopyInv'
<1>1. work[w].pc = "answered" /\ UNCHANGED <<cache, file, recent>> BY DEF Done, At, Unchanged
<1>2. DOMAIN work' = Workers /\ work'[w] = Idle /\ \A v \in Workers \ {w} : work'[v] = work[v]
    BY DEF Done, CopyInv, Workings
<1>3. Keyed(w)' /\ work'[w].pc = "idle" BY <1>2 DEF Keyed, Idle, Copying
<1> QED BY <1>1, <1>2, <1>3, Elsewhere

(***************************************************************************)
(* The copies of a worker that dies are nobody's.                          *)
(***************************************************************************)
LEMMA CrashKeeps == ASSUME CompressAssumption, CopyInv, NEW w \in Workers, Crash(w) PROVE CopyInv'
<1>1. DOMAIN work' = Workers /\ work'[w] = Idle /\ \A v \in Workers \ {w} : work'[v] = work[v]
    BY DEF Crash, CopyInv, Workings
<1>2. Keyed(w)' /\ work'[w].pc = "idle" BY <1>1 DEF Keyed, Idle, Copying
<1>3. Workings'
    <2>1. \A v \in Workers : (work[v] = Idle \/ Busy(v))' /\ Keyed(v)'
        <3> TAKE v \in Workers
        <3>1. CASE v = w BY <1>1, <1>2, <3>1
        <3>2. CASE v # w BY <1>1, <3>2 DEF CopyInv, Workings, Busy, Keyed, Key, Keys
        <3> QED BY <3>1, <3>2
    <2> QED BY <1>1, <2>1 DEF Workings
<1>4. Known' BY DEF Crash, CopyInv, Known
<1>5. cache' = [k \in Keys |-> IF cache[k].writer = w THEN [cache[k] EXCEPT !.writer = "dead"] ELSE cache[k]]
    BY DEF Crash, CopyInv, Stored
<1>6. Stored' BY <1>5 DEF CopyInv, Stored, Copies, Keys
<1>7. \A k \in Keys : /\ cache[k].writer = w => cache'[k].writer = "dead"
                      /\ cache[k].writer # w => cache'[k] = cache[k]
    BY <1>5 DEF CopyInv, Stored, Copies
<1>8. Owned'
    <2> SUFFICES ASSUME NEW k \in Keys, NEW v \in Workers
                 PROVE  (cache[k].writer = v <=> Writes(v, k))'
        BY DEF Owned, Keys
    <2>1. v # "dead" BY DEF CompressAssumption
    <2>2. CASE v = w BY <1>2, <1>7, <2>1, <2>2 DEF Writes
    <2>3. CASE v # w
        <3>1. Writes(v, k)' <=> Writes(v, k) BY <1>1, <2>3 DEF Writes, Key
        <3> QED BY <1>7, <2>1, <2>3, <3>1 DEF CopyInv, Owned
    <2> QED BY <2>2, <2>3
<1>9. Finished' BY <1>7 DEF CopyInv, Finished, Keys
<1> QED BY <1>3, <1>4, <1>6, <1>8, <1>9 DEF CopyInv

LEMMA TimeKeeps == ASSUME CompressAssumption, CopyInv, Write \/ Second PROVE CopyInv'
<1>1. UNCHANGED <<cache, work>> BY DEF Write, Second
<1>2. Known'
    <2>1. CASE Write
        <3>1. file.version + 1 \in Versions BY <2>1 DEF Write, CopyInv, Known, Versions, CompressAssumption
        <3>2. DOMAIN file' = {"version", "size", "type"} /\ file'.version = file.version + 1
            BY <2>1 DEF Write, CopyInv, Known
        <3> QED BY <2>1, <3>1, <3>2 DEF Write, CopyInv, Known, Versions
    <2>2. CASE Second BY <2>2 DEF Second, CopyInv, Known, Versions
    <2> QED BY <2>1, <2>2
<1>3. Workings' BY <1>1 DEF CopyInv, Workings, Busy, Keyed, Key, Keys
<1>4. Stored' /\ Finished' BY <1>1 DEF CopyInv, Stored, Finished, Keys, Copies
<1>5. Owned' BY <1>1 DEF CopyInv, Owned, Writes, Key, Keys
<1> QED BY <1>2, <1>3, <1>4, <1>5 DEF CopyInv

(***************************************************************************)
(* What the answers rest on: a worker has an etag of the file as it was or *)
(* is, and an encoding its client can read; what was written of a copy is  *)
(* not older than the etag it is kept under.                               *)
(***************************************************************************)
Coding == {"open", "buffer", "deflate", "written", "cached"}
Asked(w) ==
    work[w].pc # "idle" =>
        /\ work[w].etag \in 1..file.version
        /\ work[w].pc \in Coding => work[w].encoding \in work[w].request.encodings \cap allowed_encodings
Later == \A k \in Keys : cache[k].of = 0 \/ cache[k].of >= k[2]
Answers == DOMAIN answer = Workers /\ SentWhole /\ NotOlder /\ Readable

SentInv == CopyInv /\ recent \subseteq 1..file.version /\ (\A w \in Workers : Asked(w)) /\ Later /\ Answers

\* what an answer has to be, by itself
Fine(a) ==
    a # NoAnswer /\ a.status = 200 =>
        /\ ~a.raced => a.whole
        /\ a.of # 0 /\ use_etag => a.of >= a.etag[2]
        /\ a.encoding # "none" => a.encoding \in a.request.encodings \cap allowed_encodings

LEMMA Answered ==
    ASSUME Answers, NEW w \in Workers, NEW a, answer' = [answer EXCEPT ![w] = a], UNCHANGED use_etag, Fine(a)
    PROVE  Answers'
<1>1. DOMAIN answer' = Workers BY DEF Answers
<1>2. \A v \in Workers : Fine(answer[v]) BY DEF Answers, SentWhole, NotOlder, Readable, Fine
<1>3. \A v \in Workers : Fine(answer[v])'
    <2> SUFFICES ASSUME NEW v \in Workers PROVE Fine(answer[v])' OBVIOUS
    <2>1. CASE v = w
        <3>1. answer'[v] = a BY <2>1 DEF Answers
        <3> QED BY <3>1 DEF Fine
    <2>2. CASE v # w
        <3>1. answer'[v] = answer[v] BY <2>2 DEF Answers
        <3> QED BY <1>2, <3>1 DEF Fine
    <2> QED BY <2>1, <2>2
<1> QED BY <1>1, <1>3 DEF Answers, SentWhole, NotOlder, Readable, Fine

LEMMA Unanswered == ASSUME Answers, UNCHANGED <<answer, use_etag>> PROVE Answers'
BY DEF Answers, SentWhole, NotOlder, Readable

\* one worker goes on, and knows what it has known
LEMMA AskedOn ==
    ASSUME \A v \in Workers : Asked(v), NEW w \in Workers, UNCHANGED file,
           \A v \in Workers \ {w} : work'[v] = work[v], Asked(w)'
    PROVE  \A v \in Workers : Asked(v)'
<1> SUFFICES ASSUME NEW v \in Workers PROVE Asked(v)' OBVIOUS
<1>1. CASE v = w BY <1>1
<1>2. CASE v # w
    <2>1. work'[v] = work[v] /\ Asked(v) BY <1>2
    <2> QED BY <2>1 DEF Asked
<1> QED BY <1>1, <1>2

LEMMA GoingAsked ==
    ASSUME CopyInv, \A v \in Workers : Asked(v), NEW w \in Workers, NEW pc, Goes(w, pc), UNCHANGED file,
           work[w].pc # "idle", pc \in Coding => work[w].pc \in Coding
    PROVE  (\A v \in Workers : Asked(v)') /\ work'[w].request = work[w].request
<1>1. Busy(w) BY DEF CopyInv, Workings, Idle
<1>2. \A v \in Workers \ {w} : work'[v] = work[v] BY DEF CopyInv, Workings, Goes
<1>3. work'[w] = [work[w] EXCEPT !.pc = pc] BY DEF CopyInv, Workings, Goes
<1>4. /\ work'[w].pc = pc /\ work'[w].encoding = work[w].encoding /\ work'[w].etag = work[w].etag
      /\ work'[w].request = work[w].request
    BY <1>1, <1>3 DEF Busy, Full
<1>5. Asked(w) OBVIOUS
<1>6. Asked(w)' BY <1>4, <1>5 DEF Asked
<1> QED BY <1>2, <1>4, <1>6, AskedOn

(***************************************************************************)
(* Steps that answer nobody.                                               *)
(***************************************************************************)
LEMMA WritingAsked ==
    ASSUME CompressAssumption, SentInv, NEW w \in Workers, Create(w) \/ Deflate(w) \/ Close(w) \/ Fail(w)
    PROVE  SentInv'
<1>1. CopyInv' BY CreateKeeps, DeflateKeeps, CloseKeeps, FailKeeps DEF SentInv
<1>2. UNCHANGED <<file, recent, use_etag, answer>> BY DEF Create, Deflate, Close, Fail, Unchanged
<1>3. PICK pc \in {"cached", "deflate", "written", "plain"} : Goes(w, pc)
    BY DEF Create, Deflate, Close, Fail
<1>4. work[w].pc \in {"open", "deflate", "written"} BY DEF Create, Deflate, Close, Fail, At
<1>5. \A v \in Workers : Asked(v)'
    <2>1. work[w].pc # "idle" /\ (pc \in Coding => work[w].pc \in Coding) BY <1>4 DEF Coding
    <2> QED BY <1>2, <1>3, <2>1, GoingAsked DEF SentInv
<1>6. Later'
    <2>1. Key(w) \in Keys BY <1>4 DEF SentInv, CopyInv, Workings, Keyed, Copying
    <2>2. \E of \in {0, cache[Key(w)].of, file.version} :
              \A k \in Keys : cache'[k].of = (IF k = Key(w) THEN of ELSE cache[k].of) \/ cache'[k] = cache[k]
        <3>1. CASE Create(w) BY <2>1, <3>1 DEF Create, SentInv, CopyInv, Stored, Copies
        <3>2. CASE Deflate(w) BY <2>1, <3>2 DEF Deflate, SentInv, CopyInv, Stored, Copies
        <3>3. CASE Close(w) BY <2>1, <3>3 DEF Close, SentInv, CopyInv, Stored, Copies
        <3>4. CASE Fail(w) BY <2>1, <3>4 DEF Fail, Undone, Unlinked, NoCopy, SentInv, CopyInv, Stored, Copies
        <3> QED BY <3>1, <3>2, <3>3, <3>4
    <2>3. file.version >= Key(w)[2] BY <1>4 DEF SentInv, Asked, Key, CopyInv, Known, Versions
    <2> QED BY <2>1, <2>2, <2>3 DEF SentInv, Later, Keys
<1>7. Answers' BY <1>2, Unanswered DEF SentInv
<1> QED BY <1>1, <1>2, <1>5, <1>6, <1>7 DEF SentInv

LEMMA TimeAsked == ASSUME CompressAssumption, SentInv, Write \/ Second PROVE SentInv'
<1>1. CopyInv' BY TimeKeeps DEF SentInv
<1>2. UNCHANGED <<use_etag, cache, work, answer>> BY DEF Write, Second
<1>3. file.version \in Nat /\ file'.version \in {file.version, file.version + 1} /\ recent' \subseteq 1..file'.version
    <2>1. file.version \in Nat \ {0} BY DEF SentInv, CopyInv, Known, Versions
    <2>2. CASE Write
        <3>1. file'.version = file.version + 1 BY <2>2 DEF Write, SentInv, CopyInv, Known
        <3>2. recent' = recent \cup {file.version + 1} BY <2>2 DEF Write
        <3>3. \A x \in recent' : x \in 1..file'.version BY <2>1, <3>1, <3>2 DEF SentInv
        <3> QED BY <2>1, <3>1, <3>3
    <2>3. CASE Second BY <2>1, <2>3 DEF Second
    <2> QED BY <2>1, <2>2, <2>3
<1>4. \A v \in Workers : Asked(v)' BY <1>2, <1>3 DEF SentInv, Asked
<1>5. Later' BY <1>2 DEF SentInv, Later, Keys
<1>6. Answers' BY <1>2, Unanswered DEF SentInv
<1> QED BY <1>1, <1>3, <1>4, <1>5, <1>6 DEF SentInv

\* who is done, or dies, has no answer any more
LEMMA DoneAsked == ASSUME CompressAssumption, SentInv, NEW w \in Workers, Done(w) \/ Crash(w) PROVE SentInv'
<1>1. CopyInv' BY DoneKeeps, CrashKeeps DEF SentInv
<1>2. /\ UNCHANGED <<file, recent, use_etag>> /\ work' = [work EXCEPT ![w] = Idle]
      /\ answer' = [answer EXCEPT ![w] = NoAnswer]
    BY DEF Done, Crash, Unchanged
<1>3. \A v \in Workers : Asked(v)'
    <2>1. work'[w] = Idle /\ \A v \in Workers \ {w} : work'[v] = work[v]
        BY <1>2 DEF SentInv, CopyInv, Workings
    <2>2. Asked(w)' BY <2>1 DEF Asked, Idle
    <2> QED BY <1>2, <2>1, <2>2, AskedOn DEF SentInv
<1>4. \A k \in Keys : cache'[k].of = cache[k].of BY DEF Done, Crash, SentInv, CopyInv, Stored, Copies
<1>5. Later' BY <1>4 DEF SentInv, Later, Keys
<1>6. Answers'
    <2>1. Fine(NoAnswer) BY DEF Fine
    <2> QED BY <1>2, <2>1, Answered DEF SentInv
<1> QED BY <1>1, <1>2, <1>3, <1>5, <1>6 DEF SentInv

-----------------------------------------------------------------------------
\* what has to be true of an answer that is given
Meant(w, status, encoding, etag, of, whole, raced) ==
    status = 200 =>
        /\ ~raced => whole
        /\ of # 0 /\ use_etag => of >= etag[2]
        /\ encoding # "none" => encoding \in work'[w].request.encodings \cap allowed_encodings

LEMMA Replied ==
    ASSUME Answers, NEW w \in Workers, UNCHANGED use_etag,
           NEW status, NEW encoding, NEW etag, NEW of, NEW whole, NEW raced,
           Reply(w, status, encoding, etag, of, whole, raced), Meant(w, status, encoding, etag, of, whole, raced)
    PROVE  Answers'
<1> DEFINE a == [status |-> status, encoding |-> encoding, etag |-> etag, of |-> of, whole |-> whole,
                 raced |-> raced, request |-> work'[w].request]
<1>1. answer' = [answer EXCEPT ![w] = a] BY DEF Reply
<1>2. Fine(a) BY DEF Fine, Meant
<1> HIDE DEF a
<1> QED BY <1>1, <1>2, Answered

(***************************************************************************)
(* What matches is known, and the best of it is in it.                     *)
(***************************************************************************)
LEMMA BestMatches ==
    ASSUME CompressAssumption, NEW A, A \cap allowed_encodings # {}
    PROVE  Best(A \cap allowed_encodings) \in A \cap allowed_encodings
BY DEF Best, CompressAssumption, Encodings

LEMMA PhysicalAsked ==
    ASSUME CompressAssumption, SentInv, NEW w \in Workers, NEW r, NEW etag \in recent, Physical(w, r, etag)
    PROVE  SentInv'
<1>1. CopyInv' BY PhysicalKeeps DEF SentInv
<1>2. UNCHANGED <<file, recent, use_etag, cache>> BY DEF Physical
<1> DEFINE matched == r.encodings \cap allowed_encodings
           best == Best(matched)
           known == r.if_none_match
<1>3. matched # {} => best \in matched BY BestMatches
<1>4. \/ Told(w, "plain", r, etag, "none") /\ UNCHANGED answer
      \/ /\ Told(w, "answered", r, etag, best)
         /\ \E status \in {304, 412} : Reply(w, status, best, known, 0, TRUE, FALSE)
      \/ /\ matched # {} /\ UNCHANGED answer
         /\ \E pc \in {"open", "buffer"} : Told(w, pc, r, etag, best)
    <2> HIDE DEF best
    <2>1. CASE r.method = "HEAD" \/ Unfit \/ matched = {} BY <2>1 DEF Physical, best
    <2>2. CASE ~(r.method = "HEAD" \/ Unfit \/ matched = {}) BY ZenonT(60), <2>2 DEF Physical, best
    <2> QED BY <2>1, <2>2
<1> HIDE DEF best, matched, known
<1>5. PICK pc, encoding :
          /\ pc \in {"plain", "answered", "open", "buffer"}
          /\ Told(w, pc, r, etag, encoding)
          /\ pc \in {"open", "buffer"} => encoding \in matched
    <2>1. CASE Told(w, "plain", r, etag, "none") BY <2>1
    <2>2. CASE Told(w, "answered", r, etag, best) BY <2>2
    <2>3. CASE matched # {} /\ \E pc \in {"open", "buffer"} : Told(w, pc, r, etag, best) BY <1>3, <2>3
    <2> QED BY <1>4, <2>1, <2>2, <2>3
<1>6. \A v \in Workers : Asked(v)'
    <2>1. work'[w] = [pc |-> pc, request |-> r, etag |-> etag, encoding |-> encoding]
          /\ \A v \in Workers \ {w} : work'[v] = work[v]
        BY <1>5 DEF Told, SentInv, CopyInv, Workings
    <2>2. Asked(w)'
        <3>1. etag \in 1..file.version BY DEF SentInv
        <3> QED BY <1>2, <1>5, <2>1, <3>1 DEF Asked, Coding, matched
    <2> QED BY <1>2, <2>1, <2>2, AskedOn DEF SentInv
<1>7. Later' BY <1>2 DEF SentInv, Later, Keys
<1>8. Answers'
    <2>1. CASE UNCHANGED answer BY <1>2, <2>1, Unanswered DEF SentInv
    <2>2. ASSUME NEW status \in {304, 412}, Reply(w, status, best, known, 0, TRUE, FALSE) PROVE Answers'
        <3>1. Meant(w, status, best, known, 0, TRUE, FALSE) BY DEF Meant
        <3>2. Answers /\ w \in Workers /\ UNCHANGED use_etag BY <1>2 DEF SentInv
        <3> QED BY <2>2, <3>1, <3>2, Replied
    <2> QED BY <1>4, <2>1, <2>2
<1> QED BY <1>1, <1>2, <1>6, <1>7, <1>8 DEF SentInv

(***************************************************************************)
(* Steps that answer: out of the file as it is, or of a copy that was made *)
(* of it since the etag was taken, and that nobody is at any more.         *)
(***************************************************************************)
LEMMA AnswerAsked ==
    ASSUME CompressAssumption, SentInv, NEW w \in Workers, Buffer(w) \/ BufferFail(w) \/ Send(w) \/ SendPlain(w)
    PROVE  SentInv'
<1>1. CopyInv' BY AnswerKeeps DEF SentInv
<1>2. UNCHANGED <<file, recent, use_etag, cache>> BY DEF Buffer, BufferFail, Send, SendPlain, Unchanged
<1>3. PICK pc \in {"answered", "plain"} : Goes(w, pc) BY DEF Buffer, BufferFail, Send, SendPlain
<1>4. work[w].pc \in {"buffer", "cached", "plain"} BY DEF Buffer, BufferFail, Send, SendPlain, At
<1>5. (\A v \in Workers : Asked(v)') /\ work'[w].request = work[w].request
    <2>1. work[w].pc # "idle" /\ pc \notin Coding BY <1>4 DEF Coding
    <2> QED BY <1>2, <1>3, <2>1, GoingAsked DEF SentInv
<1>6. Later' BY <1>2 DEF SentInv, Later, Keys
<1>7. work[w].etag \in 1..file.version /\ file.version \in Nat BY <1>4 DEF SentInv, Asked, CopyInv, Known, Versions
<1>8. work[w].pc # "plain" => work[w].encoding \in work'[w].request.encodings \cap allowed_encodings
    BY <1>4, <1>5 DEF SentInv, Asked, Coding
<1>9. ASSUME NEW status, NEW encoding, NEW etag, NEW of, NEW whole, NEW raced,
             Reply(w, status, encoding, etag, of, whole, raced), Meant(w, status, encoding, etag, of, whole, raced)
      PROVE  Answers'
    BY <1>2, <1>9, Replied DEF SentInv
<1>10. Answers'
    <2>1. CASE Buffer(w)
        <3> DEFINE status == IF compress_cache_dir THEN 403 ELSE 200
                   etag == IF use_etag THEN Coded(work[w].encoding, work[w].etag) ELSE <<>>
        <3>1. Reply(w, status, work[w].encoding, etag, file.version, TRUE, FALSE) BY <2>1 DEF Buffer
        <3>2. work[w].encoding \in work'[w].request.encodings \cap allowed_encodings BY <1>8, <2>1 DEF Buffer, At
        <3>3. Meant(w, status, work[w].encoding, etag, file.version, TRUE, FALSE)
            BY <1>2, <1>7, <3>2 DEF Meant, Coded
        <3> HIDE DEF status, etag
        <3> QED BY <1>9, <3>1, <3>3
    <2>2. CASE BufferFail(w) BY <1>2, <2>2, Unanswered DEF BufferFail, SentInv
    <2>3. CASE Send(w)
        <3> DEFINE c == cache[Key(w)]
                   etag == Coded(work[w].encoding, work[w].etag)
                   raced == c.writer # "none"
        <3>1. work[w].pc = "cached" /\ Key(w) \in Keys
            BY <2>3 DEF Send, At, SentInv, CopyInv, Workings, Keyed, Copying
        <3>2. work[w].encoding \in work'[w].request.encodings \cap allowed_encodings BY <1>8, <3>1
        <3>3. etag[2] = Key(w)[2] /\ (c.of # 0 => c.of >= etag[2])
            BY <3>1 DEF SentInv, Later, Coded, Key
        <3>4. c # NoCopy => (~raced => c.whole) BY <3>1 DEF SentInv, CopyInv, Finished
        <3>5. Meant(w, 403, work[w].encoding, etag, 0, FALSE, TRUE) BY DEF Meant
        <3>6. c # NoCopy => Meant(w, 200, work[w].encoding, etag, c.of, c.whole, raced)
            BY <3>2, <3>3, <3>4 DEF Meant
        <3>7. \/ Reply(w, 403, work[w].encoding, etag, 0, FALSE, TRUE)
              \/ c # NoCopy /\ Reply(w, 200, work[w].encoding, etag, c.of, c.whole, raced)
            BY <2>3 DEF Send
        <3> HIDE DEF c, etag, raced
        <3>8. ASSUME Reply(w, 403, work[w].encoding, etag, 0, FALSE, TRUE) PROVE Answers'
            BY ONLY ZenonT(60), <1>9, <3>5, <3>8
        <3>9. ASSUME c # NoCopy, Reply(w, 200, work[w].encoding, etag, c.of, c.whole, raced) PROVE Answers'
            BY <1>9, <3>6, <3>9
        <3> QED BY <3>7, <3>8, <3>9
    <2>4. CASE SendPlain(w)
        <3> DEFINE etag == IF use_etag THEN Plain(work[w].etag) ELSE <<>>
        <3>1. Reply(w, 200, "none", etag, file.version, TRUE, FALSE) BY <2>4 DEF SendPlain
        <3>2. Meant(w, 200, "none", etag, file.version, TRUE, FALSE) BY <1>2, <1>7 DEF Meant, Plain
        <3> HIDE DEF etag
        <3> QED BY <1>9, <3>1, <3>2
    <2> QED BY <2>1, <2>2, <2>3, <2>4
<1> QED BY <1>1, <1>2, <1>5, <1>6, <1>10 DEF SentInv

-----------------------------------------------------------------------------
LEMMA CopyStart == ASSUME CompressAssumption, Init PROVE CopyInv
<1>1. Workings BY DEF Init, Workings, Idle, Keyed, Copying
<1>2. Known BY DEF Init, Known, Versions, CompressAssumption
<1>3. Stored BY DEF Init, Stored, Keys, Copies, NoCopy, CompressAssumption
<1>4. Owned BY DEF Init, Owned, Keys, NoCopy, Writes, Idle, CompressAssumption
<1>5. Finished BY DEF Init, Finished, Keys
<1> QED BY <1>1, <1>2, <1>3, <1>4, <1>5 DEF CopyInv

LEMMA SentStart == ASSUME CompressAssumption, Init PROVE SentInv
<1>1. CopyInv BY CopyStart
<1>2. recent \subseteq 1..file.version BY DEF Init
<1>3. \A w \in Workers : Asked(w) BY DEF Init, Asked, Idle
<1>4. Later BY DEF Init, Later, NoCopy, Keys
<1>5. Answers BY DEF Init, Answers, SentWhole, NotOlder, Readable
<1> QED BY <1>1, <1>2, <1>3, <1>4, <1>5 DEF SentInv

LEMMA SentStep == ASSUME CompressAssumption, SentInv, [Next]_vars PROVE SentInv'
<1>1. CASE UNCHANGED vars
    <2>1. CopyInv'
        BY <1>1 DEF SentInv, vars, CopyInv, Workings, Busy, Keyed, Key, Keys, Known, Stored, Copies, Owned, Writes, Finished
    <2>2. (\A w \in Workers : Asked(w))' /\ Later' BY <1>1 DEF vars, SentInv, Asked, Later, Keys
    <2>3. Answers' BY <1>1, Unanswered DEF vars, SentInv
    <2> QED BY <1>1, <2>1, <2>2, <2>3 DEF SentInv, vars
<1>2. ASSUME NEW w \in Workers, NEW r \in Requests, NEW etag \in recent, Physical(w, r, etag) PROVE SentInv'
    BY <1>2, PhysicalAsked
<1>3. ASSUME NEW w \in Workers, Create(w) \/ Deflate(w) \/ Close(w) \/ Fail(w) PROVE SentInv'
    BY <1>3, WritingAsked
<1>4. ASSUME NEW w \in Workers, Buffer(w) \/ BufferFail(w) \/ Send(w) \/ SendPlain(w) PROVE SentInv'
    BY <1>4, AnswerAsked
<1>5. ASSUME NEW w \in Workers, Done(w) \/ Crash(w) PROVE SentInv' BY <1>5, DoneAsked
<1>6. CASE Write \/ Second BY <1>6, TimeAsked
<1> QED BY <1>1, <1>2, <1>3, <1>4, <1>5, <1>6 DEF Next

(***************************************************************************)
(* mod_compress.c: a copy that is not whole is still written, by one       *)
(* worker only, or its writer died; what is answered out of a copy nobody  *)
(* is at is whole, not older than the etag it is sent under, and in an     *)
(* encoding the client accepts and the configuration allows - with any     *)
(* number of workers, versions of the file and crashes.                    *)
(***************************************************************************)
THEOREM CompressRightHolds == ASSUME CompressAssumption PROVE Spec => []CompressRight
<1>1. Init => SentInv BY SentStart
<1>2. SentInv /\ [Next]_vars => SentInv' BY SentStep
<1>3. CopyInv => WholeOrWritten
    <2> SUFFICES ASSUME CopyInv, NEW k \in Keys, cache[k] # NoCopy, ~cache[k].whole, cache[k].writer # "dead"
                 PROVE  /\ cache[k].writer \in Workers
                        /\ {w \in Workers : work[w].pc \in {"deflate", "written"} /\ Key(w) = k} = {cache[k].writer}
        BY DEF WholeOrWritten, CopyInv, Stored
    <2>1. cache[k].writer \in Workers BY DEF CopyInv, Stored, Finished, Copies
    <2>2. \A w \in Workers : (work[w].pc \in {"deflate", "written"} /\ Key(w) = k) <=> w = cache[k].writer
        BY DEF CopyInv, Owned, Writes
    <2> QED BY <2>1, <2>2
<1>4. SentInv => CompressRight BY <1>3 DEF SentInv, Answers, CompressRight
<1> QED BY <1>1, <1>2, <1>4, PTL DEF Spec

-----------------------------------------------------------------------------
(***************************************************************************)
(* What is in the FastDFS store is whole, however many workers make the    *)
(* same image and whichever of their calls fail.                           *)
(***************************************************************************)
Fields == {"pc", "request", "made", "content", "answer"}
Shaped == DOMAIN jobs = Workers /\ \A w \in Workers : DOMAIN jobs[w] = Fields

Target(w) == X!Slave(X!Original(X!Name(w)), X!file_hw(X!Name(w)))
\* what a worker is about to upload is the image of the name it uploads under
Resized == \A w \in Workers : jobs[w].pc = "upload" => jobs[w].content = X!Units(Target(w))

StoreInv == Shaped /\ Resized /\ X!Stored

(***************************************************************************)
(* A step that leaves the store alone, and that makes of one worker a      *)
(* worker with an image to upload only if it has this image.               *)
(***************************************************************************)
LEMMA OneWorker ==
    ASSUME StoreInv, NEW w \in Workers, UNCHANGED files,
           DOMAIN jobs' = Workers, DOMAIN jobs'[w] = Fields,
           \A v \in Workers \ {w} : jobs'[v] = jobs[v],
           (jobs[w].pc = "upload")' => (jobs[w].content = X!Units(Target(w)))'
    PROVE  StoreInv'
<1>1. Shaped' BY DEF StoreInv, Shaped
<1>2. Resized'
    <2> SUFFICES ASSUME NEW v \in Workers, (jobs[v].pc = "upload")'
                 PROVE  (jobs[v].content = X!Units(Target(v)))'
        BY DEF Resized
    <2>1. CASE v = w BY <2>1
    <2>2. CASE v # w
        <3>1. jobs'[v] = jobs[v] BY <2>2
        <3>2. jobs[v].content = X!Units(Target(v)) BY <3>1 DEF StoreInv, Resized
        <3>3. Target(v)' = Target(v) BY <3>1 DEF Target, X!Name
        <3> QED BY <3>1, <3>2, <3>3
    <2> QED BY <2>1, <2>2
<1>3. X!Stored' BY DEF StoreInv, X!Stored
<1> QED BY <1>1, <1>2, <1>3 DEF StoreInv

\* a request that ends, or goes on to a step that is not the upload
LEMMA Ended ==
    ASSUME StoreInv, NEW w \in Workers, NEW status, UNCHANGED files, jobs' = X!Finish(w, status)
    PROVE  StoreInv'
<1>1. DOMAIN jobs' = Workers /\ DOMAIN jobs'[w] = Fields /\ jobs'[w].pc = "done"
    BY DEF StoreInv, Shaped, X!Finish, Fields
<1>2. \A v \in Workers \ {w} : jobs'[v] = jobs[v] BY DEF StoreInv, Shaped, X!Finish
<1> QED BY <1>1, <1>2, OneWorker

LEMMA WentOn ==
    ASSUME StoreInv, NEW w \in Workers, NEW pc, pc # "upload", UNCHANGED files, jobs' = X!Goto(w, pc)
    PROVE  StoreInv'
<1>1. DOMAIN jobs' = Workers /\ DOMAIN jobs'[w] = Fields /\ jobs'[w].pc = pc
    BY DEF StoreInv, Shaped, X!Goto, Fields
<1>2. \A v \in Workers \ {w} : jobs'[v] = jobs[v] BY DEF StoreInv, Shaped, X!Goto
<1> QED BY <1>1, <1>2, OneWorker

-----------------------------------------------------------------------------
LEMMA StartKeeps == ASSUME StoreInv, NEW w \in Workers, NEW r, X!Start(w, r) PROVE StoreInv'
<1>1. DOMAIN jobs' = Workers /\ DOMAIN jobs'[w] = Fields /\ jobs'[w].pc # "upload" /\ UNCHANGED files
    BY DEF StoreInv, Shaped, X!Start, X!Idle, Fields
<1>2. \A v \in Workers \ {w} : jobs'[v] = jobs[v] BY DEF StoreInv, Shaped, X!Start
<1> QED BY <1>1, <1>2, OneWorker

LEMMA FailingKeeps == ASSUME StoreInv, NEW w \in Workers, X!Failing(w) PROVE StoreInv'
BY Ended DEF X!Failing

LEMMA ConnectKeeps == ASSUME StoreInv, NEW w \in Workers, X!Connect(w) PROVE StoreInv'
BY WentOn, FailingKeeps DEF X!Connect

LEMMA InfoKeeps == ASSUME StoreInv, NEW w \in Workers, X!Info(w) PROVE StoreInv'
<1>1. CASE X!Failing(w) BY <1>1, FailingKeeps
<1>2. CASE ~X!Failing(w)
    <2>1. UNCHANGED files BY <1>2 DEF X!Info
    <2>2. \/ jobs' = X!Goto(w, "download") \/ jobs' = X!Goto(w, "original") \/ jobs' = X!Finish(w, 404)
        BY <1>2 DEF X!Info, X!NotThere
    <2> QED BY <2>1, <2>2, WentOn, Ended
<1> QED BY <1>1, <1>2

LEMMA DownloadKeeps == ASSUME StoreInv, NEW w \in Workers, X!Download(w) PROVE StoreInv'
<1>1. CASE X!Failing(w) BY <1>1, FailingKeeps
<1>2. CASE ~X!Failing(w) /\ X!Name(w) \notin DOMAIN files BY <1>2, Ended DEF X!Download, X!NotThere
<1>3. CASE ~X!Failing(w) /\ X!Name(w) \in DOMAIN files
    <2>1. DOMAIN jobs' = Workers /\ DOMAIN jobs'[w] = Fields /\ jobs'[w].pc = "send" /\ UNCHANGED files
        BY <1>3 DEF StoreInv, Shaped, X!Download, Fields
    <2>2. \A v \in Workers \ {w} : jobs'[v] = jobs[v] BY <1>3 DEF StoreInv, Shaped, X!Download
    <2> QED BY <2>1, <2>2, OneWorker
<1> QED BY <1>1, <1>2, <1>3

LEMMA ResizeKeeps == ASSUME StoreInv, NEW w \in Workers, X!Resize(w) PROVE StoreInv'
<1> DEFINE made == [jobs EXCEPT ![w].pc = "upload", ![w].made = TRUE, ![w].content = X!Units(Target(w))]
<1>1. CASE X!Failing(w) BY <1>1, FailingKeeps
<1>2. CASE UNCHANGED files /\ \E status : jobs' = X!Finish(w, status) BY <1>2, Ended
<1>3. CASE UNCHANGED files /\ jobs' = made
    <2>1. DOMAIN jobs' = Workers /\ DOMAIN jobs'[w] = Fields BY <1>3 DEF StoreInv, Shaped, Fields
    <2>2. jobs'[w].request = jobs[w].request /\ jobs'[w].content = X!Units(Target(w))
        BY <1>3 DEF StoreInv, Shaped, Fields
    <2>3. Target(w)' = Target(w) BY <2>2 DEF Target, X!Name
    <2>4. \A v \in Workers \ {w} : jobs'[v] = jobs[v] BY <1>3 DEF StoreInv, Shaped
    <2>5. (jobs[w].content = X!Units(Target(w)))' BY <2>2, <2>3 DEF X!Units
    <2>6. UNCHANGED files BY <1>3
    <2> HIDE DEF made
    <2> QED BY <2>1, <2>4, <2>5, <2>6, OneWorker
<1>4. X!Failing(w) \/ (UNCHANGED files /\ ((\E status : jobs' = X!Finish(w, status)) \/ jobs' = made))
    <2>1. CASE X!Original(X!Name(w)) \notin DOMAIN files BY <2>1 DEF X!Resize, X!NotThere
    <2>2. CASE X!Original(X!Name(w)) \in DOMAIN files /\ X!Resizable(X!file_hw(X!Name(w)))
        BY <2>2 DEF X!Resize, Target
    <2>3. CASE X!Original(X!Name(w)) \in DOMAIN files /\ ~X!Resizable(X!file_hw(X!Name(w)))
        BY <2>3 DEF X!Resize
    <2> QED BY <2>1, <2>2, <2>3
<1> QED BY <1>1, <1>2, <1>3, <1>4

(***************************************************************************)
(* Two workers that have made the same image have made the same content:   *)
(* the first upload puts it into the store, the second changes nothing.    *)
(***************************************************************************)
LEMMA UploadKeeps == ASSUME StoreInv, NEW w \in Workers, X!Upload(w) PROVE StoreInv'
<1>1. CASE UNCHANGED files BY <1>1, WentOn DEF X!Upload
<1>2. CASE ~UNCHANGED files
    <2>1. files' = [n \in DOMAIN files \cup {Target(w)} |-> IF n = Target(w) THEN jobs[w].content ELSE files[n]]
        BY <1>2 DEF X!Upload, Target
    <2>2. jobs[w].content = X!Units(Target(w)) BY DEF StoreInv, Resized, X!Upload, X!Working
    <2>3. X!Stored' BY <2>1, <2>2 DEF StoreInv, X!Stored, X!Units
    <2>4. DOMAIN jobs' = Workers /\ (\A v \in Workers : DOMAIN jobs'[v] = Fields)
          /\ jobs'[w].pc = "again" /\ \A v \in Workers \ {w} : jobs'[v] = jobs[v]
        BY DEF StoreInv, Shaped, X!Upload, X!Goto, Fields
    <2>5. Resized'
        <3> SUFFICES ASSUME NEW v \in Workers, (jobs[v].pc = "upload")'
                     PROVE  (jobs[v].content = X!Units(Target(v)))'
            BY DEF Resized
        <3>1. v # w /\ jobs'[v] = jobs[v] BY <2>4
        <3>2. jobs[v].content = X!Units(Target(v)) BY <3>1 DEF StoreInv, Resized
        <3>3. Target(v)' = Target(v) BY <3>1 DEF Target, X!Name
        <3> QED BY <3>1, <3>2, <3>3 DEF X!Units
    <2> QED BY <2>3, <2>4, <2>5 DEF StoreInv, Shaped
<1> QED BY <1>1, <1>2

LEMMA AgainKeeps == ASSUME StoreInv, NEW w \in Workers, X!Again(w) PROVE StoreInv'
BY WentOn, Ended, FailingKeeps DEF X!Again, X!NotThere

LEMMA SendKeeps == ASSUME StoreInv, NEW w \in Workers, X!Send(w) PROVE StoreInv'
<1>1. DOMAIN jobs' = Workers /\ DOMAIN jobs'[w] = Fields /\ jobs'[w].pc = "done" /\ UNCHANGED files
    BY DEF StoreInv, Shaped, X!Send, Fields
<1>2. \A v \in Workers \ {w} : jobs'[v] = jobs[v] BY DEF StoreInv, Shaped, X!Send
<1> QED BY <1>1, <1>2, OneWorker

LEMMA DeleteKeeps == ASSUME StoreInv, NEW n \in DOMAIN files, X!Delete(n) PROVE StoreInv'
<1>1. Shaped' /\ Resized' BY DEF StoreInv, Shaped, Resized, X!Delete, Target, X!Name
<1>2. X!Stored' BY DEF StoreInv, X!Stored, X!Delete
<1> QED BY <1>1, <1>2 DEF StoreInv

-----------------------------------------------------------------------------
(***************************************************************************)
(* What is sent.  A buffer holds a whole image and a NUL behind it, or an  *)
(* image that was just made, whose last unit the NUL replaces: either way  *)
(* it begins with the image, up to its last place.                         *)
(***************************************************************************)
Values(n) == ({n} \X Nat) \cup {X!NUL}
Begins(b, whole) == Len(b) - 1 <= Len(whole) /\ \A i \in 1..(Len(b) - 1) : b[i] = whole[i]

LEMMA UnitsSeq ==
    ASSUME NEW n, SizeOf(n) \in Nat
    PROVE  X!Units(n) \in Seq(Values(n)) /\ Len(X!Units(n)) = SizeOf(n)
<1>1. X!Units(n) \in [1..SizeOf(n) -> Values(n)] BY DEF X!Units, Values
<1> QED BY <1>1

LEMMA Terminating ==
    ASSUME NEW n, SizeOf(n) \in Nat, NEW c \in {X!Units(n), Append(X!Units(n), X!NUL)}
    PROVE  /\ X!Terminated(c) \in Seq(Values(n)) /\ Len(X!Terminated(c)) = Len(c)
           /\ Begins(X!Terminated(c), X!Units(n))
<1> DEFINE u == X!Units(n)
<1>1. u \in Seq(Values(n)) /\ Len(u) \in Nat BY UnitsSeq
<1>2. X!NUL \in Values(n) BY DEF Values
<1>3. CASE c = Append(u, X!NUL)
    <2>1. c \in Seq(Values(n)) /\ Len(c) = Len(u) + 1 /\ \A i \in 1..Len(u) : c[i] = u[i]
        BY <1>1, <1>2, <1>3
    <2>2. Len(c) \in 1..Len(c) BY <1>1, <2>1
    <2> DEFINE b == [c EXCEPT ![Len(c)] = X!NUL]
    <2>3. b \in Seq(Values(n)) /\ Len(b) = Len(c) /\ \A j \in 1..Len(c) : b[j] = IF j = Len(c) THEN X!NUL ELSE c[j]
        BY <1>2, <2>1, <2>2, ExceptSeq
    <2>4. \A i \in 1..(Len(b) - 1) : b[i] = u[i] BY <1>1, <2>1, <2>3
    <2>5. X!Terminated(c) = b BY DEF X!Terminated
    <2> HIDE DEF b, u
    <2> QED BY <1>1, <2>1, <2>3, <2>4, <2>5 DEF Begins, u
<1>4. CASE c = u
    <2>1. CASE Len(u) = 0
        <3>1. [c EXCEPT ![Len(c)] = X!NUL] = c BY <1>1, <1>4, <2>1
        <3>2. X!Terminated(c) = c BY <3>1 DEF X!Terminated
        <3>3. Begins(c, u) BY <1>1, <1>4, <2>1 DEF Begins
        <3> QED BY <1>1, <1>4, <3>2, <3>3
    <2>2. CASE Len(u) # 0
        <3>1. Len(c) \in 1..Len(c) BY <1>1, <1>4, <2>2
        <3> DEFINE b == [c EXCEPT ![Len(c)] = X!NUL]
        <3>2. b \in Seq(Values(n)) /\ Len(b) = Len(c) /\ \A j \in 1..Len(c) : b[j] = IF j = Len(c) THEN X!NUL ELSE c[j]
            BY <1>1, <1>2, <1>4, <3>1, ExceptSeq
        <3>3. \A i \in 1..(Len(b) - 1) : b[i] = u[i] BY <1>1, <1>4, <3>2
        <3>4. X!Terminated(c) = b BY DEF X!Terminated
        <3> HIDE DEF b, u
        <3> QED BY <1>1, <1>4, <3>2, <3>3, <3>4 DEF Begins, u
    <2> QED BY <2>1, <2>2
<1> QED BY <1>3, <1>4

\* chunkqueue_append_mem(): what is inside of the buffer is of the image
LEMMA MemoryOfImage ==
    ASSUME NEW V, NEW b \in Seq(V), NEW whole \in Seq(V), Begins(b, whole),
           NEW from \in Nat, NEW to \in Int, to <= Len(b) - 1
    PROVE  /\ X!Memory(b, from, to) = X!Memory(whole, from, to) /\ X!Memory(b, from, to) \in Seq(V)
           /\ X!ToSet(X!Memory(b, from, to)) \subseteq X!ToSet(whole)
<1>1. Len(b) \in Nat /\ Len(whole) \in Nat BY LenProperties
<1>2. \A i \in (from + 1)..to : i \in 1..(Len(b) - 1) /\ i \in 1..Len(b) /\ i \in 1..Len(whole) BY <1>1 DEF Begins
<1>3. \A i \in (from + 1)..to : b[i] \in V /\ b[i] = whole[i] BY <1>2 DEF Begins
<1> DEFINE one == SubSeq(b, from + 1, to)
           two == SubSeq(whole, from + 1, to)
           len == IF from + 1 <= to THEN to - (from + 1) + 1 ELSE 0
<1>4. one \in Seq(V) /\ Len(one) = len /\ \A i \in 1..(to - (from + 1) + 1) : one[i] = b[(from + 1) + i - 1]
    BY <1>3, SubSeqProperties
<1>5. two \in Seq(V) /\ Len(two) = len /\ \A i \in 1..(to - (from + 1) + 1) : two[i] = whole[(from + 1) + i - 1]
    BY <1>3, SubSeqProperties
<1> HIDE DEF one, two
<1>6. \A i \in 1..Len(one) : i \in 1..(to - (from + 1) + 1) /\ (from + 1) + i - 1 \in (from + 1)..to
    BY <1>1, <1>4
<1>7. \A i \in 1..Len(one) : one[i] = two[i] /\ one[i] = whole[(from + 1) + i - 1]
    BY <1>3, <1>4, <1>5, <1>6
<1>8. one = two BY <1>4, <1>5, <1>7, SeqEqual
<1>9. X!ToSet(one) \subseteq X!ToSet(whole)
    <2>1. DOMAIN one = 1..Len(one) /\ DOMAIN whole = 1..Len(whole) BY <1>4, LenProperties
    <2>2. \A i \in DOMAIN one : one[i] = whole[(from + 1) + i - 1] /\ (from + 1) + i - 1 \in DOMAIN whole
        BY <1>2, <1>6, <1>7, <2>1
    <2> QED BY <2>2 DEF X!ToSet
<1> QED BY <1>4, <1>8, <1>9 DEF X!Memory, one, two

(***************************************************************************)
(* http_response_parse_range(): what it may have found so far, of a buffer *)
(* that begins with "whole".                                               *)
(***************************************************************************)
Ranges == [kind : {"word", "suffix", "from", "span"}, a : Nat, b : Nat]
Scanning(V) == [start : Int, end : Int, body : Seq(V), status : {0, 416}, multipart : BOOLEAN, error : BOOLEAN, ended : BOOLEAN]
Scans(V, whole) == {s \in Scanning(V) : X!ToSet(s.body) \subseteq X!ToSet(whole)}
\* a range that is followed by another one leaves this behind
Mixed(s) == s.multipart \/ s.error

\* what a range makes of it
After(s, t, V, whole, more) == t \in Scans(V, whole) /\ (Mixed(s) \/ more => Mixed(t))
Taken(s, t, whole) == ~t.error => t.body = s.body \o X!Memory(whole, t.start, t.end)

LEMMA Joined ==
    ASSUME NEW V, NEW s \in Seq(V), NEW t \in Seq(V), NEW W, X!ToSet(s) \subseteq W, X!ToSet(t) \subseteq W
    PROVE  s \o t \in Seq(V) /\ X!ToSet(s \o t) \subseteq W
<1>1. /\ s \o t \in Seq(V) /\ Len(s \o t) = Len(s) + Len(t)
      /\ \A i \in 1..Len(s) + Len(t) : (s \o t)[i] = IF i <= Len(s) THEN s[i] ELSE t[i - Len(s)]
    BY ConcatProperties
<1>2. /\ Len(s) \in Nat /\ Len(t) \in Nat /\ DOMAIN s = 1..Len(s) /\ DOMAIN t = 1..Len(t)
      /\ DOMAIN (s \o t) = 1..Len(s) + Len(t)
    BY <1>1, LenProperties
<1>3. ASSUME NEW i \in 1..Len(s) + Len(t) PROVE (s \o t)[i] \in W
    <2>1. CASE i <= Len(s) BY <1>1, <1>2, <2>1 DEF X!ToSet
    <2>2. CASE ~(i <= Len(s))
        <3>1. i - Len(s) \in DOMAIN t BY <1>2, <2>2
        <3>2. t[i - Len(s)] \in W BY <3>1 DEF X!ToSet
        <3> QED BY <1>1, <2>2, <3>2
    <2> QED BY <2>1, <2>2
<1> QED BY <1>1, <1>2, <1>3 DEF X!ToSet

LEMMA RefuseScans ==
    ASSUME NEW V, NEW whole, NEW s \in Scans(V, whole), NEW status \in {0, 416}
    PROVE  /\ X!Refuse(s, status) \in Scans(V, whole) /\ Mixed(X!Refuse(s, status)) /\ X!Refuse(s, status).error
BY ZenonT(60) DEF Scans, Scanning, Mixed, X!Refuse

LEMMA PlaceScans ==
    ASSUME NEW V, NEW b \in Seq(V), NEW whole \in Seq(V), Begins(b, whole),
           NEW s \in Scans(V, whole), NEW start \in Int, NEW end \in Int, NEW more \in BOOLEAN
    PROVE  After(s, X!Place(s, b, start, end, more), V, whole, more) /\ Taken(s, X!Place(s, b, start, end, more), whole)
<1> DEFINE from == IF start < 0 THEN 0 ELSE start
           to == IF end > Len(b) - 1 THEN Len(b) - 1 ELSE end
           t == X!Place(s, b, start, end, more)
           m == X!Memory(b, from, to)
<1>1. Len(b) \in Nat /\ from \in Nat /\ to \in Int /\ to <= Len(b) - 1 BY LenProperties
<1> HIDE DEF from, to
<1>2. m = X!Memory(whole, from, to) /\ m \in Seq(V) /\ X!ToSet(m) \subseteq X!ToSet(whole)
    BY <1>1, MemoryOfImage
<1>3. CASE from > Len(b) - 1
    <2>1. t = X!Refuse(s, 416) BY <1>3 DEF X!Place, from
    <2> HIDE DEF t
    <2>2. t \in Scans(V, whole) /\ Mixed(t) /\ t.error BY <2>1, RefuseScans
    <2> QED BY <2>2 DEF t, After, Taken
<1>4. CASE ~(from > Len(b) - 1)
    <2> DEFINE several == s.multipart \/ more
               body == s.body \o m
    <2>1. t = [s EXCEPT !.start = from, !.end = to, !.multipart = several, !.body = body]
        BY <1>4 DEF X!Place, from, to
    <2>2. s.body \in Seq(V) /\ X!ToSet(s.body) \subseteq X!ToSet(whole) /\ s \in Scanning(V) BY DEF Scans, Scanning
    <2> HIDE DEF t, m
    <2>3. body \in Seq(V) /\ X!ToSet(body) \subseteq X!ToSet(whole) /\ several \in BOOLEAN BY <1>2, <2>2, Joined
    <2>8. Mixed(s) \/ more => several \/ s.error BY DEF Mixed
    <2> HIDE DEF several, body
    <2>9. t \in Scanning(V)
        <3>1. t = [start |-> from, end |-> to, body |-> body, status |-> s.status, multipart |-> several,
                   error |-> s.error, ended |-> s.ended]
            BY <2>1, <2>2 DEF Scanning
        <3>2. from \in Int /\ s.status \in {0, 416} /\ s.error \in BOOLEAN /\ s.ended \in BOOLEAN
            BY <1>1, <2>2 DEF Scanning
        <3> QED BY <1>1, <2>3, <3>1, <3>2 DEF Scanning
    <2>4. t.start = from /\ t.end = to /\ t.multipart = several /\ t.body = body /\ t.error = s.error
        BY <2>1, <2>2 DEF Scanning
    <2>5. t \in Scans(V, whole) BY <2>3, <2>4, <2>9 DEF Scans
    <2>6. Mixed(s) \/ more => Mixed(t) BY <2>4, <2>8 DEF Mixed
    <2>7. t.body = s.body \o X!Memory(whole, t.start, t.end) BY <1>2, <2>4 DEF body
    <2> QED BY <2>5, <2>6, <2>7 DEF t, After, Taken
<1> QED BY <1>3, <1>4

LEMMA OneRangeScans ==
    ASSUME NEW V, NEW b \in Seq(V), NEW whole \in Seq(V), Begins(b, whole),
           NEW s \in Scans(V, whole), NEW e \in Ranges, NEW more \in BOOLEAN
    PROVE  /\ After(s, X!OneRange(s, b, e, more), V, whole, more)
           /\ e.kind # "word" => Taken(s, X!OneRange(s, b, e, more), whole)
           /\ e.kind = "word" /\ ~X!OneRange(s, b, e, more).error => X!OneRange(s, b, e, more).body = s.body
<1>1. e.kind \in {"word", "suffix", "from", "span"} /\ e.a \in Int /\ e.b \in Int /\ Len(b) - e.a \in Int /\ Len(b) - 1 \in Int
    BY LenProperties DEF Ranges
<1>2. \A status \in {0, 416} : /\ After(s, X!Refuse(s, status), V, whole, more) /\ Taken(s, X!Refuse(s, status), whole)
                                /\ X!Refuse(s, status).error
    <2> TAKE status \in {0, 416}
    <2>1. X!Refuse(s, status) \in Scans(V, whole) /\ Mixed(X!Refuse(s, status)) /\ X!Refuse(s, status).error
        BY RefuseScans
    <2> QED BY <2>1 DEF After, Taken
<1>3. \A start, end \in Int : After(s, X!Place(s, b, start, end, more), V, whole, more)
                              /\ Taken(s, X!Place(s, b, start, end, more), whole)
    BY PlaceScans
<1>4. CASE e.kind = "word"
    <2>1. CASE more
        <3>1. X!OneRange(s, b, e, more) = X!Refuse(s, 0) BY <1>4, <2>1 DEF X!OneRange
        <3> QED BY <1>2, <1>4, <3>1
    <2>2. CASE ~more
        <3> DEFINE t == [s EXCEPT !.ended = TRUE]
        <3>1. X!OneRange(s, b, e, more) = t BY <1>4, <2>2 DEF X!OneRange
        <3>2. t.body = s.body /\ After(s, t, V, whole, more) BY ZenonT(60), <2>2 DEF After, Scans, Scanning, Mixed
        <3> HIDE DEF t
        <3> QED BY <1>4, <3>1, <3>2
    <2> QED BY <2>1, <2>2
<1>5. CASE e.kind # "word"
    <2>1. \/ \E status \in {0, 416} : X!OneRange(s, b, e, more) = X!Refuse(s, status)
          \/ \E start, end \in Int : X!OneRange(s, b, e, more) = X!Place(s, b, start, end, more)
        BY <1>1, <1>5 DEF X!OneRange
    <2>2. CASE \E status \in {0, 416} : X!OneRange(s, b, e, more) = X!Refuse(s, status) BY <1>2, <1>5, <2>2
    <2>3. CASE \E start, end \in Int : X!OneRange(s, b, e, more) = X!Place(s, b, start, end, more)
        BY <1>3, <1>5, <2>3
    <2> QED BY <2>1, <2>2, <2>3
<1> QED BY <1>4, <1>5

(***************************************************************************)
(* All the ranges: whatever they are, nothing but units of the image is    *)
(* collected; and if neither an error nor a second range was found, there  *)
(* is one range, with what is between its start and its end.               *)
(***************************************************************************)
LEMMA RangesScanned ==
    ASSUME NEW V, NEW b \in Seq(V), NEW whole \in Seq(V), Begins(b, whole),
           NEW ranges \in Seq(Ranges), ranges # <<>>, NEW s, s = X!http_response_parse_range(b, ranges)
    PROVE  /\ s \in Scans(V, whole)
           /\ ~Mixed(s) => s.body = IF ranges[1].kind = "word" THEN <<>> ELSE X!Memory(whole, s.start, s.end)
<1> DEFINE N == Len(ranges)
           W == Scans(V, whole)
           first == X!Begin(b)
           next(t, i) == IF t.error \/ t.ended THEN t ELSE X!OneRange(t, b, ranges[i], i < Len(ranges))
           T == [x \in W \X (1..N) |-> next(x[1], x[2])]
           scan == CHOOSE f : f = [i \in 0..N |-> IF i = 0 THEN first ELSE next(f[i - 1], i)]
<1>1. N \in Nat /\ N >= 1 /\ Len(b) \in Nat /\ \A i \in 1..N : ranges[i] \in Ranges
    <2>1. N \in Nat /\ Len(b) \in Nat /\ (N = 0 => ranges = <<>>) BY LenProperties, EmptySeq
    <2>2. \A i \in 1..N : ranges[i] \in Ranges BY ElementOfSeq
    <2> HIDE DEF N
    <2> QED BY <2>1, <2>2
<1>2. s = scan[N] BY DEF X!http_response_parse_range
<1>3. first \in W /\ ~first.error /\ ~first.ended /\ first.body = <<>>
    <2>1. X!ToSet(<<>>) = {} BY DEF X!ToSet
    <2>2. <<>> \in Seq(V) OBVIOUS
    <2> QED BY <1>1, <2>1, <2>2 DEF X!Begin, Scans, Scanning
<1>4. ASSUME NEW t \in W, NEW i \in 1..N PROVE next(t, i) \in W /\ (Mixed(t) => Mixed(next(t, i)))
    <2> DEFINE more == i < Len(ranges)
    <2>1. ranges[i] \in Ranges /\ more \in BOOLEAN BY <1>1
    <2>2. After(t, X!OneRange(t, b, ranges[i], more), V, whole, more)
        <3> HIDE DEF more
        <3> QED BY <2>1, OneRangeScans
    <2> QED BY <2>2 DEF After
<1> HIDE DEF W, next, first
<1>5. T \in [W \X (1..N) -> W] BY <1>4
<1>6. PICK f \in [0..N -> W] : Steps(f, N, first, T)
    <2> HIDE DEF T, N
    <2> QED BY <1>1, <1>3, <1>5, StepsExist
<1>7. f = [i \in 0..N |-> IF i = 0 THEN first ELSE next(f[i - 1], i)]
    <2>1. ASSUME NEW i \in 0..N PROVE f[i] = IF i = 0 THEN first ELSE next(f[i - 1], i)
        <3>1. CASE i = 0 BY <1>6, <3>1 DEF Steps
        <3>2. CASE i # 0
            <4>1. i \in 1..N /\ i - 1 \in 0..N BY <1>1, <3>2
            <4>2. f[i] = T[<<f[i - 1], i>>] BY <1>6, <4>1 DEF Steps
            <4> QED BY <3>2, <4>1, <4>2
        <3> QED BY <3>1, <3>2
    <2> QED BY <2>1
<1>8. scan = [i \in 0..N |-> IF i = 0 THEN first ELSE next(scan[i - 1], i)] BY <1>7
<1> HIDE DEF scan, T
<1>9. scan[0] = first BY <1>1, <1>8
<1>10. \A i \in 1..N : scan[i] = next(scan[i - 1], i)
    <2> TAKE i \in 1..N
    <2>1. i \in 0..N /\ i # 0 BY <1>1
    <2> QED BY <1>8, <2>1
<1>11. \A i \in 0..N : scan[i] \in W
    <2>1. \A i \in 1..N : scan[i - 1] \in W => scan[i] \in W BY <1>4, <1>10
    <2>2. scan[0] \in W BY <1>3, <1>9
    <2> HIDE DEF N
    <2> QED BY <1>1, <2>1, <2>2, StepsStay
<1> DEFINE more == 1 < Len(ranges)
<1>12. scan[1] = X!OneRange(first, b, ranges[1], more)
    <2>1. 1 \in 1..N /\ 1 - 1 = 0 BY <1>1
    <2>2. scan[1] = next(first, 1) BY <1>9, <1>10, <2>1
    <2> QED BY <1>3, <2>2 DEF next
<1>13. ranges[1] \in Ranges /\ more \in BOOLEAN BY <1>1
<1>14. /\ After(first, scan[1], V, whole, more)
       /\ ranges[1].kind # "word" => Taken(first, scan[1], whole)
       /\ ranges[1].kind = "word" /\ ~scan[1].error => scan[1].body = first.body
    <2>1. first \in Scans(V, whole) BY <1>3 DEF W
    <2> HIDE DEF more
    <2> QED BY <1>12, <1>13, <2>1, OneRangeScans
<1>15. CASE N = 1
    <2>1. s = scan[1] /\ s \in W BY <1>1, <1>2, <1>11, <1>15
    <2>2. s.start \in Int /\ s.end \in Int BY <2>1 DEF W, Scans, Scanning
    <2>4. ~Mixed(s) => s.body = IF ranges[1].kind = "word" THEN <<>> ELSE X!Memory(whole, s.start, s.end)
        BY <1>3, <1>14, <2>1 DEF Taken, Mixed
    <2> QED BY <2>1, <2>4 DEF W
<1>16. CASE N # 1
    <2> DEFINE g == [i \in 0..(N - 1) |-> scan[i + 1]]
               M == {t \in W : Mixed(t)}
    <2>1. g[0] \in M
        <3>1. 1 < Len(ranges) /\ 0 \in 0..(N - 1) BY ONLY <1>1, <1>16
        <3>2. scan[1] \in M BY <1>14, <3>1 DEF After, W
        <3> QED BY <3>1, <3>2
    <2>2. ASSUME NEW i \in 1..(N - 1), g[i - 1] \in M PROVE g[i] \in M
        <3>1. i + 1 \in 1..N /\ i - 1 \in 0..(N - 1) /\ i \in 0..(N - 1) /\ i \in 0..N /\ (i - 1) + 1 = i /\ (i + 1) - 1 = i BY <1>1
        <3>2. g[i - 1] = scan[i] /\ g[i] = scan[i + 1] BY <3>1
        <3>3. scan[i + 1] = next(scan[i], i + 1) BY <1>10, <3>1
        <3> QED BY <1>4, <2>2, <3>1, <3>2, <3>3
    <2>3. N - 1 \in Nat /\ N - 1 \in 0..(N - 1) /\ (N - 1) + 1 = N BY <1>1
    <2>4. \A i \in 0..(N - 1) : g[i] \in M
        <3> HIDE DEF g, M, N
        <3> QED BY <2>1, <2>2, <2>3, StepsStay
    <2>5. g[N - 1] = scan[N] /\ g[N - 1] \in M BY <2>3, <2>4
    <2> QED BY <1>2, <2>5 DEF W
<1> QED BY <1>15, <1>16

-----------------------------------------------------------------------------
(***************************************************************************)
(* A name that is made from another one has two sizes: it is that of the   *)
(* original, with the two put behind it.                                   *)
(***************************************************************************)
LEMMA LastTwo ==
    ASSUME NEW S, NEW s \in Seq(S), Len(s) >= 2, NEW front, front = SubSeq(s, 1, Len(s) - 2),
           NEW hw, hw = [i \in 1..2 |-> s[Len(s) - 2 + i]]
    PROVE  front \o hw = s
<1>1. Len(s) \in Nat /\ \A i \in 1..Len(s) : s[i] \in S BY LenProperties, ElementOfSeq
<1>2. /\ front \in Seq(S) /\ Len(front) = Len(s) - 2
      /\ \A i \in 1..(Len(s) - 2) : front[i] = s[i]
    <2>1. Len(s) - 2 \in Int /\ 1 \in Int /\ \A i \in 1..(Len(s) - 2) : s[i] \in S BY <1>1
    <2>2. /\ front \in Seq(S) /\ Len(front) = IF 1 <= Len(s) - 2 THEN (Len(s) - 2) - 1 + 1 ELSE 0
          /\ \A i \in 1..((Len(s) - 2) - 1 + 1) : front[i] = s[1 + i - 1]
        BY <2>1, SubSeqProperties
    <2>3. Len(front) = Len(s) - 2 BY <1>1, <2>2
    <2>4. \A i \in 1..(Len(s) - 2) : i \in 1..((Len(s) - 2) - 1 + 1) /\ 1 + i - 1 = i BY <1>1
    <2>5. \A i \in 1..(Len(s) - 2) : front[i] = s[i]
        <3> TAKE i \in 1..(Len(s) - 2)
        <3> QED BY <2>2, <2>4
    <2> QED BY <2>2, <2>3, <2>5
<1>3. hw \in Seq(S) /\ Len(hw) = 2 /\ \A i \in 1..2 : hw[i] = s[Len(s) - 2 + i]
    <2>1. \A i \in 1..2 : Len(s) - 2 + i \in 1..Len(s) BY <1>1
    <2>2. hw \in [1..2 -> S] BY <1>1, <2>1
    <2> QED BY <2>2
<1>4. /\ front \o hw \in Seq(S) /\ Len(front \o hw) = Len(front) + Len(hw)
      /\ \A i \in 1..Len(front) + Len(hw) :
            (front \o hw)[i] = IF i <= Len(front) THEN front[i] ELSE hw[i - Len(front)]
    BY <1>2, <1>3, ConcatProperties
<1>5. Len(front \o hw) = Len(s) BY <1>1, <1>2, <1>3, <1>4
<1>6. ASSUME NEW i \in 1..Len(front \o hw) PROVE (front \o hw)[i] = s[i]
    <2>1. CASE i <= Len(front) BY <1>1, <1>2, <1>4, <1>5, <2>1
    <2>2. CASE ~(i <= Len(front))
        <3>1. i - Len(front) \in 1..2 /\ Len(s) - 2 + (i - Len(front)) = i BY <1>1, <1>2, <1>5, <2>2
        <3> QED BY <1>1, <1>2, <1>3, <1>4, <1>5, <2>2, <3>1
    <2> QED BY <2>1, <2>2
<1> QED BY <1>4, <1>5, <1>6, SeqEqual

LEMMA Divided ==
    ASSUME X!FastdfsAssumption, NEW base, NEW s \in Seq(X!Sizes), NEW type,
           NEW n, n = [base |-> base, sizes |-> s, type |-> type], X!is_covert(n)
    PROVE  X!Slave(X!Original(n), X!file_hw(n)) = n
<1>1. Len(s) \in Nat BY LenProperties
<1>2. Len(s) >= 2
    <2>1. PICK k \in X!FirstSize(n) : filesizes[k] = <<"*">> => X!TwoNumbers(n) BY DEF X!is_covert
    <2>2. k \in 1..Len(filesizes) /\ X!Decides(filesizes[k], n) BY <2>1 DEF X!FirstSize
    <2>3. CASE filesizes[k] = <<"*">> BY <1>1, <2>1, <2>3 DEF X!TwoNumbers
    <2>4. CASE filesizes[k] # <<"*">>
        <3>1. Len(filesizes[k]) = 2 /\ X!IsSuffix(filesizes[k], s) BY <2>2, <2>4 DEF X!FastdfsAssumption, X!Decides
        <3>2. Len(X!Reverse(filesizes[k])) = 2 /\ Len(X!Reverse(s)) = Len(s) BY <1>1, <3>1 DEF X!Reverse
        <3> QED BY <3>1, <3>2 DEF X!IsSuffix, X!IsPrefix
    <2> QED BY <2>3, <2>4
<1> DEFINE front == SubSeq(s, 1, Len(s) - 2)
           hw == X!file_hw(n)
           joined == front \o hw
<1>3. X!Original(n) = [base |-> base, sizes |-> front, type |-> type]
    <2> DEFINE v == SubSeq(n.sizes, 1, Len(n.sizes) - 2)
    <2>1. X!Original(n) = [n EXCEPT !.sizes = v] BY DEF X!Original
    <2>2. n.sizes = s OBVIOUS
    <2>3. v = front BY ONLY <2>2
    <2> HIDE DEF v, front
    <2>4. [n EXCEPT !.sizes = v] = [base |-> base, sizes |-> v, type |-> type]
        BY ONLY n = [base |-> base, sizes |-> s, type |-> type]
    <2> QED BY ONLY <2>1, <2>3, <2>4
<1>4. joined = s
    <2>1. hw = [i \in 1..2 |-> s[Len(s) - 2 + i]] BY DEF X!file_hw
    <2> HIDE DEF hw
    <2> QED BY <1>2, <2>1, LastTwo
<1> HIDE DEF hw, front
<1> DEFINE o == X!Original(n)
<1>5. o = [base |-> base, sizes |-> front, type |-> type] BY <1>3
<1>6. X!Slave(o, hw) = [o EXCEPT !.sizes = joined]
    <2> HIDE DEF o
    <2>1. X!Slave(o, hw) = [o EXCEPT !.sizes = o.sizes \o hw] BY DEF X!Slave
    <2>2. o.sizes = front BY <1>5
    <2> QED BY <2>1, <2>2
<1> HIDE DEF joined, o
<1>7. [o EXCEPT !.sizes = joined] = [base |-> base, sizes |-> joined, type |-> type] BY ONLY <1>5
<1> QED BY ONLY <1>4, <1>6, <1>7, n = [base |-> base, sizes |-> s, type |-> type] DEF hw, o

LEMMA MadeOf ==
    ASSUME X!FastdfsAssumption, NEW r \in Requests, r.method = "GET", X!is_covert(r.name)
    PROVE  X!Slave(X!Original(r.name), X!file_hw(r.name)) = r.name
<1> DEFINE n == r.name
           base == n.base
           s == n.sizes
           type == n.type
<1>1. n = [base |-> base, sizes |-> s, type |-> type] /\ s \in Seq(X!Sizes) BY DEF X!FastdfsAssumption
<1>2. X!is_covert(n) OBVIOUS
<1> HIDE DEF n, base, s, type
<1>3. X!Slave(X!Original(n), X!file_hw(n)) = n BY <1>1, <1>2, Divided
<1> QED BY <1>3 DEF n

-----------------------------------------------------------------------------
(***************************************************************************)
(* The requests.  Fitting: what a worker has at each of its steps is the   *)
(* image of the name it was asked for, and its answer is of this image.    *)
(* OnItsWay: while no call fails and nothing is deleted, what it found in  *)
(* the store is still there, and no file that is there or can be made is   *)
(* answered with an error.                                                 *)
(***************************************************************************)
Serving == {"connect", "info", "download", "original", "upload", "again", "send"}
Worthy(n) == n \in Masters \/ X!CanBeMade(n)
Undisturbed == faults = 0 /\ deletions = 0

Truthful(j) ==
    LET whole == X!Units(j.request.name)
    IN  /\ j.answer.status = 200 /\ j.request.range = <<>> => j.answer.body = IF j.made THEN X!Front(whole) ELSE whole
        /\ j.answer.told # <<>> => j.answer.body = IF j.request.range[1].kind = "word" THEN <<>>
                                                    ELSE X!Memory(whole, j.answer.told[1], j.answer.told[2])
        /\ X!ToSet(j.answer.body) \subseteq X!ToSet(whole)
Fitting(j) ==
    LET n == j.request.name
    IN  /\ j.pc # "idle" => j.request \in Requests
        /\ j.pc \in Serving => j.request.method = "GET"
        /\ j.pc \in {"connect", "info", "download", "original"} => ~j.made
        /\ j.pc \in {"original", "upload", "again"} => X!is_covert(n)
        /\ j.pc \in {"upload", "again"} => j.made /\ j.content = X!Units(n)
        /\ j.pc = "send" => j.content = IF j.made THEN X!Units(n) ELSE Append(X!Units(n), X!NUL)
        /\ j.pc = "done" /\ j.request.method = "GET" => Truthful(j)
OnItsWay(j, there) ==
    LET n == j.request.name
    IN  /\ j.pc = "download" => n \in there
        /\ j.pc = "original" => n \notin Masters
        /\ j.pc = "upload" => X!Original(n) \in there
        /\ j.pc = "again" => n \in there
        /\ j.pc = "done" /\ j.request.method = "GET" /\ Worthy(n) => j.answer.status \notin {404, 500}

Kept == faults \in Nat /\ deletions \in Nat /\ (deletions = 0 => Masters \subseteq DOMAIN files)
FastdfsInv ==
    /\ StoreInv /\ Kept
    /\ \A w \in Workers : Fitting(jobs[w]) /\ (Undisturbed => OnItsWay(jobs[w], DOMAIN files))

\* a step of one worker does not take from the store what the others found there
LEMMA OtherJobs ==
    ASSUME FastdfsInv, NEW w \in Workers, StoreInv', Kept', \A v \in Workers \ {w} : jobs'[v] = jobs[v],
           Undisturbed' => Undisturbed /\ DOMAIN files \subseteq DOMAIN files',
           Fitting(jobs'[w]), Undisturbed' => OnItsWay(jobs'[w], DOMAIN files')
    PROVE  FastdfsInv'
<1>1. ASSUME NEW v \in Workers PROVE Fitting(jobs'[v]) /\ (Undisturbed' => OnItsWay(jobs'[v], DOMAIN files'))
    <2>1. CASE v = w BY <2>1
    <2>2. CASE v # w
        <3>1. jobs'[v] = jobs[v] BY <2>2
        <3>2. Fitting(jobs[v]) /\ (Undisturbed => OnItsWay(jobs[v], DOMAIN files)) BY DEF FastdfsInv
        <3>3. Undisturbed' => OnItsWay(jobs[v], DOMAIN files')
            <4> SUFFICES ASSUME Undisturbed' PROVE OnItsWay(jobs[v], DOMAIN files') OBVIOUS
            <4>1. OnItsWay(jobs[v], DOMAIN files) /\ DOMAIN files \subseteq DOMAIN files' BY <3>2
            <4> QED BY <4>1 DEF OnItsWay
        <3> QED BY <3>1, <3>2, <3>3
    <2> QED BY <2>1, <2>2
<1> QED BY <1>1 DEF FastdfsInv

\* a request that ends with an error: it is one for a file that is not there, or a call failed
LEMMA Stops ==
    ASSUME FastdfsInv, NEW w \in Workers, NEW status \in {404, 500}, jobs' = X!Finish(w, status),
           UNCHANGED <<files, deletions>>, faults' \in {faults, faults + 1}, jobs[w].pc \in Serving,
           Undisturbed' => Undisturbed /\ ~Worthy(X!Name(w))
    PROVE  FastdfsInv'
<1>1. StoreInv' BY Ended DEF FastdfsInv
<1>2. Kept' BY DEF FastdfsInv, Kept
<1>3. DOMAIN jobs = Workers /\ DOMAIN jobs[w] = Fields BY DEF FastdfsInv, StoreInv, Shaped
<1>4. \A v \in Workers \ {w} : jobs'[v] = jobs[v] BY <1>3 DEF X!Finish
<1> DEFINE j == jobs'[w]
<1>5. /\ j.pc = "done" /\ j.request = jobs[w].request
      /\ j.answer = [status |-> status, body |-> <<>>, told |-> <<>>, file_finished |-> TRUE]
    BY <1>3 DEF X!Finish, X!NoAnswer, Fields
<1>6. jobs[w].request \in Requests BY DEF FastdfsInv, Fitting, Serving
<1> HIDE DEF j
<1>7. X!ToSet(<<>>) = {} BY DEF X!ToSet
<1>8. Truthful(j) BY <1>5, <1>7 DEF Truthful
<1>9. Fitting(j) BY <1>5, <1>6, <1>8 DEF Fitting, Serving
<1>10. Undisturbed' => OnItsWay(j, DOMAIN files') BY <1>5 DEF OnItsWay, X!Name
<1> QED BY <1>1, <1>2, <1>4, <1>9, <1>10, OtherJobs DEF j

LEMMA Fails ==
    ASSUME FastdfsInv, NEW w \in Workers, X!Failing(w), UNCHANGED deletions, jobs[w].pc \in Serving
    PROVE  FastdfsInv'
<1>1. faults' = faults + 1 /\ jobs' = X!Finish(w, 500) /\ UNCHANGED files BY DEF X!Failing
<1>2. ~Undisturbed' BY <1>1 DEF FastdfsInv, Kept, Undisturbed
<1> QED BY <1>1, <1>2, Stops

\* a request that goes on
LEMMA Proceeds ==
    ASSUME FastdfsInv, NEW w \in Workers, NEW pc, jobs' = X!Goto(w, pc), pc # "upload", pc \in Serving,
           UNCHANGED <<files, deletions, faults>>, jobs[w].pc \in Serving,
           NEW n, n = X!Name(w),
           pc \in {"connect", "info", "download", "original"} => ~jobs[w].made,
           pc \in {"original", "again"} => X!is_covert(n),
           pc = "again" => jobs[w].made /\ jobs[w].content = X!Units(n),
           pc = "send" => jobs[w].content = IF jobs[w].made THEN X!Units(n) ELSE Append(X!Units(n), X!NUL),
           Undisturbed => /\ pc \in {"download", "again"} => n \in DOMAIN files
                          /\ pc = "original" => n \notin Masters
    PROVE  FastdfsInv'
<1>1. StoreInv' BY WentOn DEF FastdfsInv
<1>2. Kept' BY DEF FastdfsInv, Kept
<1>3. DOMAIN jobs = Workers /\ DOMAIN jobs[w] = Fields BY DEF FastdfsInv, StoreInv, Shaped
<1>4. \A v \in Workers \ {w} : jobs'[v] = jobs[v] BY <1>3 DEF X!Goto
<1> DEFINE j == jobs'[w]
<1>5. j.pc = pc /\ j.request = jobs[w].request /\ j.made = jobs[w].made /\ j.content = jobs[w].content
    BY <1>3 DEF X!Goto, Fields
<1>6. jobs[w].request \in Requests /\ jobs[w].request.method = "GET" BY DEF FastdfsInv, Fitting, Serving
<1>7. j.request.name = n BY <1>5 DEF X!Name
<1> HIDE DEF j
<1>8. Fitting(j) BY <1>5, <1>6, <1>7 DEF Fitting, Serving
<1>9. Undisturbed => OnItsWay(j, DOMAIN files) BY <1>5, <1>7 DEF OnItsWay, Serving
<1>10. Undisturbed' <=> Undisturbed BY DEF Undisturbed
<1> QED BY <1>1, <1>2, <1>4, <1>8, <1>9, <1>10, OtherJobs DEF j

-----------------------------------------------------------------------------
LEMMA StartFits == ASSUME FastdfsInv, NEW w \in Workers, NEW r \in Requests, X!Start(w, r) PROVE FastdfsInv'
<1>1. StoreInv' BY StartKeeps DEF FastdfsInv
<1>2. Kept' /\ (Undisturbed' <=> Undisturbed) /\ UNCHANGED files
    BY DEF FastdfsInv, Kept, Undisturbed, X!Start, X!Working
<1>3. DOMAIN jobs = Workers BY DEF FastdfsInv, StoreInv, Shaped
<1>4. \A v \in Workers \ {w} : jobs'[v] = jobs[v] BY <1>3 DEF X!Start
<1> DEFINE j == jobs'[w]
<1>5. /\ j.request = r /\ ~j.made
      /\ j.pc = IF r.method = "GET" THEN "connect" ELSE "done"
    BY <1>3 DEF X!Start, X!Idle
<1> HIDE DEF j
<1>6. Fitting(j) BY <1>5 DEF Fitting, Serving
<1>7. OnItsWay(j, DOMAIN files) BY <1>5 DEF OnItsWay
<1> QED BY <1>1, <1>2, <1>4, <1>6, <1>7, OtherJobs DEF j

LEMMA ConnectFits == ASSUME FastdfsInv, NEW w \in Workers, X!Connect(w) PROVE FastdfsInv'
<1>1. jobs[w].pc = "connect" /\ UNCHANGED deletions BY DEF X!Connect, X!Working
<1>2. CASE X!Failing(w) BY <1>1, <1>2, Fails DEF Serving
<1>3. CASE ~X!Failing(w)
    <2>1. jobs' = X!Goto(w, "info") /\ UNCHANGED <<files, deletions, faults>> BY <1>1, <1>3 DEF X!Connect
    <2>2. ~jobs[w].made BY <1>1 DEF FastdfsInv, Fitting
    <2> QED BY <1>1, <2>1, <2>2, Proceeds DEF Serving
<1> QED BY <1>2, <1>3

LEMMA InfoFits == ASSUME FastdfsInv, NEW w \in Workers, X!Info(w) PROVE FastdfsInv'
<1>1. jobs[w].pc = "info" /\ UNCHANGED deletions BY DEF X!Info, X!Working
<1>2. ~jobs[w].made BY <1>1 DEF FastdfsInv, Fitting
<1>3. Undisturbed => Masters \subseteq DOMAIN files BY DEF FastdfsInv, Kept, Undisturbed
<1>4. CASE X!Failing(w) BY <1>1, <1>4, Fails DEF Serving
<1>5. CASE ~X!Failing(w)
    <2>1. UNCHANGED <<files, deletions, faults>> BY <1>1, <1>5 DEF X!Info
    <2>2. CASE X!Name(w) \in DOMAIN files
        <3>1. jobs' = X!Goto(w, "download") BY <1>5, <2>2 DEF X!Info
        <3> QED BY <1>1, <1>2, <2>1, <2>2, <3>1, Proceeds DEF Serving
    <2>3. CASE X!Name(w) \notin DOMAIN files /\ X!is_covert(X!Name(w))
        <3>1. jobs' = X!Goto(w, "original") BY <1>5, <2>3 DEF X!Info
        <3>2. Undisturbed => X!Name(w) \notin Masters BY <1>3, <2>3
        <3> QED BY <1>1, <1>2, <2>1, <2>3, <3>1, <3>2, Proceeds DEF Serving
    <2>4. CASE X!Name(w) \notin DOMAIN files /\ ~X!is_covert(X!Name(w))
        <3>1. jobs' = X!Finish(w, 404) BY <1>5, <2>4 DEF X!Info, X!NotThere
        <3>2. Undisturbed => ~Worthy(X!Name(w)) BY <1>3, <2>4 DEF Worthy, X!CanBeMade
        <3>3. Undisturbed' <=> Undisturbed BY <2>1 DEF Undisturbed
        <3> QED BY <1>1, <2>1, <3>1, <3>2, <3>3, Stops DEF Serving
    <2> QED BY <2>2, <2>3, <2>4
<1> QED BY <1>4, <1>5

LEMMA DownloadFits == ASSUME FastdfsInv, NEW w \in Workers, X!Download(w) PROVE FastdfsInv'
<1> DEFINE n == X!Name(w)
           j == jobs'[w]
<1>1. jobs[w].pc = "download" /\ UNCHANGED deletions BY DEF X!Download, X!Working
<1>2. ~jobs[w].made /\ jobs[w].request \in Requests /\ jobs[w].request.method = "GET"
    BY <1>1 DEF FastdfsInv, Fitting, Serving
<1>3. CASE X!Failing(w) BY <1>1, <1>3, Fails DEF Serving
<1>4. CASE ~X!Failing(w) /\ n \notin DOMAIN files
    <2>1. UNCHANGED <<files, faults>> /\ jobs' = X!Finish(w, 404) BY <1>4 DEF X!Download, X!NotThere
    <2>2. ~Undisturbed BY <1>1, <1>4 DEF FastdfsInv, OnItsWay, X!Name
    <2>3. Undisturbed' <=> Undisturbed BY <1>1, <2>1 DEF Undisturbed
    <2> QED BY <1>1, <2>1, <2>2, <2>3, Stops DEF Serving
<1>5. CASE ~X!Failing(w) /\ n \in DOMAIN files
    <2>1. UNCHANGED <<files, faults>> BY <1>5 DEF X!Download
    <2>2. StoreInv' BY DownloadKeeps DEF FastdfsInv
    <2>3. Kept' /\ (Undisturbed' <=> Undisturbed) BY <1>1, <2>1 DEF FastdfsInv, Kept, Undisturbed
    <2>4. jobs' = [jobs EXCEPT ![w].pc = "send", ![w].content = Append(files[n], X!NUL)]
        BY <1>5 DEF X!Download
    <2>5. DOMAIN jobs = Workers /\ DOMAIN jobs[w] = Fields BY DEF FastdfsInv, StoreInv, Shaped
    <2>6. \A v \in Workers \ {w} : jobs'[v] = jobs[v] BY <2>4, <2>5
    <2>7. files[n] = X!Units(n) BY <1>5 DEF FastdfsInv, StoreInv, X!Stored
    <2>8. /\ j.pc = "send" /\ j.request = jobs[w].request /\ j.made = jobs[w].made
          /\ j.content = Append(X!Units(n), X!NUL)
        BY <2>4, <2>5, <2>7 DEF Fields
    <2>9. j.request.name = n BY <2>8 DEF X!Name
    <2> HIDE DEF j, n
    <2>10. Fitting(j) BY <1>2, <2>8, <2>9 DEF Fitting, Serving
    <2>11. OnItsWay(j, DOMAIN files') BY <2>8 DEF OnItsWay
    <2> QED BY <2>1, <2>2, <2>3, <2>6, <2>10, <2>11, OtherJobs DEF j
<1> QED BY <1>3, <1>4, <1>5

LEMMA ResizeFits ==
    ASSUME X!FastdfsAssumption, FastdfsInv, NEW w \in Workers, X!Resize(w)
    PROVE  FastdfsInv'
<1> DEFINE n == X!Name(w)
           o == X!Original(n)
           j == jobs'[w]
<1>1. jobs[w].pc = "original" /\ UNCHANGED deletions BY DEF X!Resize, X!Working
<1>2. /\ ~jobs[w].made /\ jobs[w].request \in Requests /\ jobs[w].request.method = "GET" /\ X!is_covert(n)
      /\ Undisturbed => n \notin Masters
    BY <1>1 DEF FastdfsInv, Fitting, OnItsWay, Serving, X!Name
<1>3. Undisturbed => Masters \subseteq DOMAIN files BY DEF FastdfsInv, Kept, Undisturbed
<1>4. CASE X!Failing(w) BY <1>1, <1>4, Fails DEF Serving
<1>5. CASE ~X!Failing(w) /\ ~(o \in DOMAIN files /\ X!Resizable(X!file_hw(n)))
    <2>1. UNCHANGED <<files, faults>> BY <1>5 DEF X!Resize
    <2>2. jobs' = X!Finish(w, 404) \/ jobs' = X!Finish(w, 500)
        <3>1. CASE o \notin DOMAIN files BY <1>5, <3>1 DEF X!Resize, X!NotThere
        <3>2. CASE o \in DOMAIN files BY <1>5, <3>2 DEF X!Resize
        <3> QED BY <3>1, <3>2
    <2>3. Undisturbed => ~Worthy(n) BY <1>2, <1>3, <1>5 DEF Worthy, X!CanBeMade
    <2>4. Undisturbed' <=> Undisturbed BY <1>1, <2>1 DEF Undisturbed
    <2> QED BY <1>1, <2>1, <2>2, <2>3, <2>4, Stops DEF Serving
<1>6. CASE ~X!Failing(w) /\ o \in DOMAIN files /\ X!Resizable(X!file_hw(n))
    <2>1. UNCHANGED <<files, faults>> BY <1>6 DEF X!Resize
    <2>2. StoreInv' BY ResizeKeeps DEF FastdfsInv
    <2>3. Kept' /\ (Undisturbed' <=> Undisturbed) BY <1>1, <2>1 DEF FastdfsInv, Kept, Undisturbed
    <2>4. jobs' = [jobs EXCEPT ![w].pc = "upload", ![w].made = TRUE,
                               ![w].content = X!Units(X!Slave(o, X!file_hw(n)))]
        BY <1>6 DEF X!Resize
    <2>5. DOMAIN jobs = Workers /\ DOMAIN jobs[w] = Fields BY DEF FastdfsInv, StoreInv, Shaped
    <2>6. \A v \in Workers \ {w} : jobs'[v] = jobs[v] BY <2>4, <2>5
    <2>7. X!Slave(o, X!file_hw(n)) = n BY <1>2, MadeOf DEF X!Name
    <2>8. /\ j.pc = "upload" /\ j.request = jobs[w].request /\ j.made /\ j.content = X!Units(n)
        BY <2>4, <2>5, <2>7 DEF Fields
    <2>9. j.request.name = n BY <2>8 DEF X!Name
    <2> HIDE DEF j, n
    <2>10. Fitting(j) BY <1>2, <2>8, <2>9 DEF Fitting, Serving
    <2>11. OnItsWay(j, DOMAIN files') BY <1>6, <2>1, <2>8, <2>9 DEF OnItsWay
    <2> QED BY <2>1, <2>2, <2>3, <2>6, <2>10, <2>11, OtherJobs DEF j
<1> QED BY <1>4, <1>5, <1>6

LEMMA UploadFits ==
    ASSUME X!FastdfsAssumption, FastdfsInv, NEW w \in Workers, X!Upload(w)
    PROVE  FastdfsInv'
<1> DEFINE n == X!Name(w)
           j == jobs'[w]
<1>1. jobs[w].pc = "upload" /\ UNCHANGED deletions /\ jobs' = X!Goto(w, "again") BY DEF X!Upload, X!Working
<1>2. /\ jobs[w].made /\ jobs[w].content = X!Units(n) /\ jobs[w].request \in Requests
      /\ jobs[w].request.method = "GET" /\ X!is_covert(n)
      /\ Undisturbed => X!Original(n) \in DOMAIN files
    BY <1>1 DEF FastdfsInv, Fitting, OnItsWay, Serving, X!Name
<1>3. StoreInv' BY UploadKeeps DEF FastdfsInv
<1>4. DOMAIN jobs = Workers /\ DOMAIN jobs[w] = Fields BY DEF FastdfsInv, StoreInv, Shaped
<1>5. \A v \in Workers \ {w} : jobs'[v] = jobs[v] BY <1>1, <1>4 DEF X!Goto
<1>6. j.pc = "again" /\ j.request = jobs[w].request /\ j.made = jobs[w].made /\ j.content = jobs[w].content
    BY <1>1, <1>4 DEF X!Goto, Fields
<1>7. j.request.name = n BY <1>6 DEF X!Name
<1>8. X!Slave(X!Original(n), X!file_hw(n)) = n BY <1>2, MadeOf DEF X!Name
<1>9. /\ DOMAIN files \subseteq DOMAIN files'
      /\ Undisturbed' => Undisturbed /\ n \in DOMAIN files'
    <2>1. CASE faults' = faults + 1 /\ UNCHANGED files
        BY <2>1 DEF FastdfsInv, Kept, Undisturbed
    <2>2. CASE /\ UNCHANGED faults
               /\ files' = IF n \in DOMAIN files \/ X!Original(n) \notin DOMAIN files THEN files
                           ELSE [m \in DOMAIN files \cup {n} |-> IF m = n THEN jobs[w].content ELSE files[m]]
        BY <1>1, <1>2, <2>2 DEF Undisturbed
    <2> QED BY <1>8, <2>1, <2>2 DEF X!Upload
<1>10. Kept'
    <2>1. faults' \in {faults, faults + 1} BY DEF X!Upload
    <2> QED BY <1>1, <1>9, <2>1 DEF FastdfsInv, Kept
<1> HIDE DEF j, n
<1>11. Fitting(j) BY <1>2, <1>6, <1>7 DEF Fitting, Serving
<1>12. Undisturbed' => OnItsWay(j, DOMAIN files') BY <1>6, <1>7, <1>9 DEF OnItsWay
<1> QED BY <1>3, <1>5, <1>9, <1>10, <1>11, <1>12, OtherJobs DEF j

LEMMA AgainFits == ASSUME FastdfsInv, NEW w \in Workers, X!Again(w) PROVE FastdfsInv'
<1> DEFINE n == X!Name(w)
<1>1. jobs[w].pc = "again" /\ UNCHANGED deletions BY DEF X!Again, X!Working
<1>2. jobs[w].made /\ jobs[w].content = X!Units(n) /\ (Undisturbed => n \in DOMAIN files)
    BY <1>1 DEF FastdfsInv, Fitting, OnItsWay, X!Name
<1>3. CASE X!Failing(w) BY <1>1, <1>3, Fails DEF Serving
<1>4. CASE ~X!Failing(w) /\ n \in DOMAIN files
    <2>1. jobs' = X!Goto(w, "send") /\ UNCHANGED <<files, deletions, faults>> BY <1>1, <1>4 DEF X!Again
    <2> QED BY <1>1, <1>2, <2>1, Proceeds DEF Serving
<1>5. CASE ~X!Failing(w) /\ n \notin DOMAIN files
    <2>1. jobs' = X!Finish(w, 404) /\ UNCHANGED <<files, deletions, faults>> BY <1>1, <1>5 DEF X!Again, X!NotThere
    <2>2. Undisturbed' <=> Undisturbed BY <2>1 DEF Undisturbed
    <2> QED BY <1>1, <1>2, <1>5, <2>1, <2>2, Stops DEF Serving
<1> QED BY <1>3, <1>4, <1>5

\* an answer with ranges of the image "whole"
InRange(a, r, whole) ==
    /\ a.status \in {200, 206, 416} /\ X!ToSet(a.body) \subseteq X!ToSet(whole)
    /\ a.told # <<>> => a.body = IF r.range[1].kind = "word" THEN <<>> ELSE X!Memory(whole, a.told[1], a.told[2])

\* what is answered with: nothing, a range or some, or all of the image but the last place of the buffer
LEMMA Answering ==
    ASSUME X!FastdfsAssumption, NEW r \in Requests, r.method = "GET", NEW n, n = r.name,
           NEW c \in {X!Units(n), Append(X!Units(n), X!NUL)}, NEW b, b = X!Terminated(c)
    PROVE  /\ c = X!Units(n) => X!Front(b) = X!Front(X!Units(n))
           /\ c # X!Units(n) => X!Front(b) = X!Units(n)
           /\ X!ToSet(X!Front(b)) \subseteq X!ToSet(X!Units(n))
           /\ r.range # <<>> => InRange(X!Ranged(b, r.range), r, X!Units(n))
<1> DEFINE V == Values(n)
           u == X!Units(n)
<1>1. SizeOf(n) \in Nat /\ r.range \in Seq(Ranges) BY DEF X!FastdfsAssumption, Ranges
<1>2. u \in Seq(V) /\ Len(u) \in Nat /\ Len(u) = SizeOf(n) BY <1>1, UnitsSeq
<1>3. b \in Seq(V) /\ Len(b) = Len(c) /\ Begins(b, u)
    <2> QED BY <1>1, Terminating
<1>4. /\ (c = u => X!Front(b) = X!Front(u)) /\ (c # u => X!Front(b) = u)
      /\ X!ToSet(X!Front(b)) \subseteq X!ToSet(u)
    <2>0. c \in {u, Append(u, X!NUL)} OBVIOUS
    <2> HIDE DEF V, u
    <2>1. Len(b) \in Nat BY <1>3, LenProperties
    <2>2. /\ X!Front(b) \in Seq(V) /\ Len(X!Front(b)) = IF Len(b) = 0 THEN 0 ELSE Len(b) - 1
          /\ \A i \in 1..(Len(b) - 1) : X!Front(b)[i] = b[i]
        BY <1>3, <2>1, SubSeqProperties DEF X!Front
    <2>3. \A i \in 1..Len(X!Front(b)) : i \in 1..(Len(b) - 1) /\ i \in 1..Len(u) /\ X!Front(b)[i] = u[i]
        BY <1>2, <1>3, <2>1, <2>2 DEF Begins
    <2>4. X!ToSet(X!Front(b)) \subseteq X!ToSet(u)
        <3>1. DOMAIN u = 1..Len(u) /\ DOMAIN X!Front(b) = 1..Len(X!Front(b)) BY <1>2, <2>2, LenProperties
        <3> DEFINE front == X!Front(b)
        <3> HIDE DEF front
        <3>2. \A i \in DOMAIN front : i \in DOMAIN u /\ front[i] = u[i] BY <1>2, <2>3, <3>1 DEF front
        <3>3. X!ToSet(front) \subseteq X!ToSet(u) BY <3>2 DEF X!ToSet
        <3> QED BY <3>3 DEF front
    <2>5. CASE c = u
        <3>1. Len(b) = Len(u) BY <1>3, <2>5
        <3>2. /\ X!Front(u) \in Seq(V) /\ Len(X!Front(u)) = IF Len(u) = 0 THEN 0 ELSE Len(u) - 1
              /\ \A i \in 1..(Len(u) - 1) : X!Front(u)[i] = u[i]
            BY <1>2, SubSeqProperties DEF X!Front
        <3>3. \A i \in 1..Len(X!Front(b)) : X!Front(b)[i] = X!Front(u)[i] BY <1>2, <2>2, <2>3, <3>1, <3>2
        <3>4. X!Front(b) = X!Front(u) BY <2>2, <3>1, <3>2, <3>3, SeqEqual
        <3> QED BY <2>4, <2>5, <3>4
    <2>6. CASE c # u
        <3>1. c = Append(u, X!NUL) /\ X!NUL \in V BY <2>0, <2>6 DEF V, Values
        <3>2. Len(b) = Len(u) + 1 BY <1>2, <1>3, <3>1
        <3>3. Len(X!Front(b)) = Len(u) BY <1>2, <2>2, <3>2
        <3>4. X!Front(b) = u BY <1>2, <2>2, <2>3, <3>3, SeqEqual
        <3> QED BY <2>4, <2>6, <3>4
    <2> QED BY <2>5, <2>6
<1>5. ASSUME r.range # <<>>
      PROVE  InRange(X!Ranged(b, r.range), r, u)
    <2> DEFINE ranges == r.range
               s == X!http_response_parse_range(b, ranges)
               a == X!Ranged(b, ranges)
    <2>1. /\ s \in Scans(V, u)
          /\ ~Mixed(s) => s.body = IF ranges[1].kind = "word" THEN <<>> ELSE X!Memory(u, s.start, s.end)
        <3>1. ranges \in Seq(Ranges) /\ ranges # <<>> BY <1>1, <1>5
        <3> HIDE DEF V, u, ranges
        <3> QED BY <1>2, <1>3, <3>1, RangesScanned
    <2>2. /\ a.status = (CASE ~s.error -> 206 [] s.error /\ s.status = 0 -> 200 [] OTHER -> s.status)
          /\ a.body = s.body /\ a.told = IF s.error \/ s.multipart THEN <<>> ELSE <<s.start, s.end>>
        BY DEF X!Ranged
    <2> HIDE DEF V, u, ranges, s, a
    <2>3. s.status \in {0, 416} /\ s.error \in BOOLEAN /\ X!ToSet(s.body) \subseteq X!ToSet(u) BY <2>1 DEF Scans, Scanning
    <2>4. a.status \in {200, 206, 416} BY <2>2, <2>3
    <2>5. a.told # <<>> => ~Mixed(s) /\ a.told[1] = s.start /\ a.told[2] = s.end BY <2>2 DEF Mixed
    <2> QED BY <2>1, <2>2, <2>3, <2>4, <2>5 DEF a, ranges, InRange
<1> QED BY <1>4, <1>5

LEMMA SendFits == ASSUME X!FastdfsAssumption, FastdfsInv, NEW w \in Workers, X!Send(w) PROVE FastdfsInv'
<1> DEFINE r == jobs[w].request
           n == r.name
           made == jobs[w].made
           c == jobs[w].content
           b == X!Terminated(c)
           j == jobs'[w]
<1>1. jobs[w].pc = "send" /\ UNCHANGED <<files, faults, deletions>> BY DEF X!Send, X!Working
<1>2. /\ r \in Requests /\ r.method = "GET"
      /\ c = IF made THEN X!Units(n) ELSE Append(X!Units(n), X!NUL)
    BY <1>1 DEF FastdfsInv, Fitting, Serving
<1>3. StoreInv' BY SendKeeps DEF FastdfsInv
<1>4. Kept' /\ (Undisturbed' <=> Undisturbed) BY <1>1 DEF FastdfsInv, Kept, Undisturbed
<1>5. DOMAIN jobs = Workers /\ DOMAIN jobs[w] = Fields BY DEF FastdfsInv, StoreInv, Shaped
<1>6. \A v \in Workers \ {w} : jobs'[v] = jobs[v] BY <1>5 DEF X!Send
<1>7. /\ j.pc = "done" /\ j.request = r /\ j.made = made
      /\ j.answer = CASE r.current -> [X!NoAnswer EXCEPT !.status = 304, !.file_finished = TRUE]
                      [] ~r.current /\ r.range # <<>> -> X!Ranged(b, r.range)
                      [] OTHER -> [X!NoAnswer EXCEPT !.status = 200, !.body = X!Chunk(b), !.file_finished = TRUE]
    BY <1>5 DEF X!Send, Fields
<1>8. c \in {X!Units(n), Append(X!Units(n), X!NUL)} /\ b = X!Terminated(c) /\ n = r.name BY <1>2
<1> HIDE DEF b, c, n, made, r, j
<1>12. /\ c = X!Units(n) => X!Front(b) = X!Front(X!Units(n))
       /\ c # X!Units(n) => X!Front(b) = X!Units(n)
       /\ X!ToSet(X!Front(b)) \subseteq X!ToSet(X!Units(n))
       /\ r.range # <<>> => InRange(X!Ranged(b, r.range), r, X!Units(n))
    BY ONLY X!FastdfsAssumption, <1>2, <1>8, Answering
<1>13. X!Front(b) = IF made THEN X!Front(X!Units(n)) ELSE X!Units(n)
    <2>1. CASE made BY <1>2, <1>12, <2>1
    <2>2. CASE ~made
        <3>1. c = Append(X!Units(n), X!NUL) BY <1>2, <2>2
        <3>2. SizeOf(n) \in Nat BY <1>2, <1>8 DEF X!FastdfsAssumption
        <3>3. Len(c) = Len(X!Units(n)) + 1 /\ Len(X!Units(n)) \in Nat
            <4> DEFINE u == X!Units(n)
            <4>1. u \in Seq(Values(n)) /\ X!NUL \in Values(n) BY <3>2, UnitsSeq DEF Values
            <4> HIDE DEF u
            <4>2. Len(Append(u, X!NUL)) = Len(u) + 1 /\ Len(u) \in Nat BY <4>1, LenProperties
            <4> QED BY <3>1, <4>2 DEF u
        <3>4. c # X!Units(n) BY <3>3
        <3> QED BY <1>12, <2>2, <3>4
    <2> QED BY <2>1, <2>2
<1>9. Truthful(j) /\ j.answer.status \notin {404, 500}
    <2>1. CASE r.current
        <3>0. j.answer = [X!NoAnswer EXCEPT !.status = 304, !.file_finished = TRUE] BY <1>7, <2>1
        <3>1. j.answer.status = 304 /\ j.answer.body = <<>> /\ j.answer.told = <<>> BY <3>0 DEF X!NoAnswer
        <3>2. X!ToSet(<<>>) = {} BY DEF X!ToSet
        <3> QED BY <3>1, <3>2 DEF Truthful
    <2>2. CASE ~r.current /\ r.range # <<>>
        <3>1. j.answer = X!Ranged(b, r.range) BY <1>7, <2>2
        <3> QED BY <1>7, <1>8, <1>12, <2>2, <3>1 DEF Truthful, InRange
    <2>3. CASE ~r.current /\ r.range = <<>>
        <3>1. j.answer.status = 200 /\ j.answer.body = X!Front(b) /\ j.answer.told = <<>>
            BY ZenonT(60), <1>7, <2>3 DEF X!NoAnswer, X!Chunk
        <3> QED BY <1>7, <1>8, <1>12, <1>13, <3>1 DEF Truthful
    <2> QED BY <2>1, <2>2, <2>3
<1>10. Fitting(j) BY <1>2, <1>7, <1>9 DEF Fitting, Serving
<1>11. OnItsWay(j, DOMAIN files') BY <1>7, <1>9 DEF OnItsWay
<1> QED BY <1>1, <1>3, <1>4, <1>6, <1>10, <1>11, OtherJobs DEF j

LEMMA DeleteFits == ASSUME FastdfsInv, NEW n \in DOMAIN files, X!Delete(n) PROVE FastdfsInv'
<1>1. StoreInv' BY DeleteKeeps DEF FastdfsInv
<1>2. UNCHANGED <<jobs, faults>> /\ deletions' = deletions + 1 BY DEF X!Delete
<1>3. Kept' /\ ~Undisturbed' BY <1>2 DEF FastdfsInv, Kept, Undisturbed
<1> QED BY <1>1, <1>2, <1>3 DEF FastdfsInv

-----------------------------------------------------------------------------
(***************************************************************************)
(* storage_upload_slave_by_filebuff1(): every file of the store is the     *)
(* whole image of its name - whoever made it, however many made it at      *)
(* once, whatever failed or was deleted meanwhile.  Answers are of the     *)
(* image that was asked for, ranges of the places they name; and unless a  *)
(* call fails or something is deleted, who asks for what is there or can   *)
(* be made gets it.                                                        *)
(***************************************************************************)
THEOREM FastdfsRightHolds == ASSUME X!FastdfsAssumption PROVE X!Spec => []X!FastdfsRight
<1>1. X!Init => FastdfsInv
    <2> SUFFICES ASSUME X!Init PROVE FastdfsInv OBVIOUS
    <2>1. Shaped BY DEF X!Init, Shaped, X!Idle, Fields
    <2>2. Resized BY DEF X!Init, Resized, X!Idle
    <2>3. X!Stored BY DEF X!Init, X!Stored
    <2>4. Kept BY DEF X!Init, Kept
    <2>5. ASSUME NEW w \in Workers PROVE Fitting(jobs[w]) /\ OnItsWay(jobs[w], DOMAIN files)
        <3>1. jobs[w].pc = "idle" BY DEF X!Init, X!Idle
        <3> QED BY <3>1 DEF Fitting, OnItsWay, Serving
    <2> QED BY <2>1, <2>2, <2>3, <2>4, <2>5 DEF FastdfsInv, StoreInv
<1>2. FastdfsInv /\ [X!Next]_X!vars => FastdfsInv'
    <2> SUFFICES ASSUME FastdfsInv, [X!Next]_X!vars PROVE FastdfsInv' OBVIOUS
    <2>1. CASE UNCHANGED X!vars
        <3>1. UNCHANGED <<files, jobs, faults, deletions>> BY <2>1 DEF X!vars
        <3>2. StoreInv' BY <3>1 DEF FastdfsInv, StoreInv, Shaped, Resized, X!Stored, X!Units, Target, X!Name
        <3>3. Kept' /\ (Undisturbed' <=> Undisturbed) BY <3>1 DEF FastdfsInv, Kept, Undisturbed
        <3> QED BY <3>1, <3>2, <3>3 DEF FastdfsInv
    <2>2. ASSUME NEW w \in Workers, NEW r \in Requests, X!Start(w, r) PROVE FastdfsInv' BY <2>2, StartFits
    <2>3. ASSUME NEW w \in Workers, X!Connect(w) PROVE FastdfsInv' BY <2>3, ConnectFits
    <2>4. ASSUME NEW w \in Workers, X!Info(w) PROVE FastdfsInv' BY <2>4, InfoFits
    <2>5. ASSUME NEW w \in Workers, X!Download(w) PROVE FastdfsInv' BY <2>5, DownloadFits
    <2>6. ASSUME NEW w \in Workers, X!Resize(w) PROVE FastdfsInv' BY <2>6, ResizeFits
    <2>7. ASSUME NEW w \in Workers, X!Upload(w) PROVE FastdfsInv' BY <2>7, UploadFits
    <2>8. ASSUME NEW w \in Workers, X!Again(w) PROVE FastdfsInv' BY <2>8, AgainFits
    <2>9. ASSUME NEW w \in Workers, X!Send(w) PROVE FastdfsInv' BY <2>9, SendFits
    <2>10. ASSUME NEW n \in DOMAIN files, X!Delete(n) PROVE FastdfsInv' BY <2>10, DeleteFits
    <2> QED BY <2>1, <2>2, <2>3, <2>4, <2>5, <2>6, <2>7, <2>8, <2>9, <2>10 DEF X!Next
<1>3. FastdfsInv => X!FastdfsRight
    <2> SUFFICES ASSUME FastdfsInv PROVE X!FastdfsRight OBVIOUS
    <2>1. X!Stored BY DEF FastdfsInv, StoreInv
    <2>2. X!Sent BY DEF FastdfsInv, Fitting, Truthful, X!Sent, X!Answered, X!Name
    <2>3. X!Found BY DEF FastdfsInv, Undisturbed, OnItsWay, Worthy, X!Found, X!Answered, X!Name
    <2> QED BY <2>1, <2>2, <2>3 DEF X!FastdfsRight
<1> QED BY <1>1, <1>2, <1>3, PTL DEF X!Spec
=============================================================================
