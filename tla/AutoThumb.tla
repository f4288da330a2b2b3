------------------------------- MODULE AutoThumb -------------------------------
(***************************************************************************)
(* mod_autothumb with the file store: several worker processes answer      *)
(* requests for thumbnails of one image.  A thumbnail that is not in the   *)
(* store is made from the original and saved there; nothing keeps two      *)
(* workers from doing that at the same time, or a third from reading what  *)
(* is half written.                                                        *)
(*                                                                         *)
(* A file is a sequence of blocks: a block that was written ("data") or    *)
(* one that a write beyond the end left out ("hole").  The bytes a worker  *)
(* has in memory may also be what malloc() returned ("garbage").           *)
(***************************************************************************)
EXTENDS Integers, Sequences, FiniteSets

CONSTANTS
    Workers,                \* worker processes
    Thumbs,                 \* thumbnails of the image that can be asked for
    Blocks,                 \* blocks of a thumbnail
    Crashes,                \* may a worker die?
    DiskFull,               \* may a write fail?
    MaxRequests             \* bound: requests of one worker

ASSUME AutoThumbAssumption ==
    /\ IsFiniteSet(Workers)
    /\ Blocks \in Nat \ {0} /\ MaxRequests \in Nat
    /\ {Crashes, DiskFull} \subseteq BOOLEAN

VARIABLES
    original,               \* is the original in the store?
    file,                   \* thumbnail -> its file in the store
    pc, want,               \* per worker: where it is; the thumbnail it works on
    size, data,             \* file_size1 and file_data1
    at,                     \* blocks read or written so far
    http_status,            \* con->http_status
    answer,                 \* last answer of the worker
    requests,               \* requests of the worker so far
    created,                \* history: how often the file of a thumbnail was created
    harmed,                 \* history: thumbnails whose writer died or whose disk was full
    settled                 \* history: was the thumbnail settled when it was asked for?

local == <<want, size, data, at, http_status>>
vars  == <<original, file, created, harmed, pc, local, answer, requests, settled>>

Absent   == <<"absent">>
Complete == [k \in 1..Blocks |-> "data"]
NoAnswer == [status |-> 0, file_finished |-> FALSE]

Contents(S) == UNION {[1..n -> S] : n \in 0..Blocks}
Files  == {Absent} \cup Contents({"data", "hole"})
Bodies == Contents({"data", "hole", "garbage"})
Answers == [status : {0, 200, 404, 500}, file_finished : BOOLEAN]

TypeOK ==
    /\ original \in BOOLEAN /\ file \in [Thumbs -> Files]
    /\ pc \in [Workers -> {"idle", "fetch", "size", "read", "original", "convert",
                           "create", "write", "answer"}]
    /\ want \in [Workers -> Thumbs]
    /\ size \in [Workers -> 0..Blocks] /\ at \in [Workers -> 0..Blocks]
    /\ data \in [Workers -> Bodies]
    /\ http_status \in [Workers -> {0, 404, 500}]
    /\ answer \in [Workers -> Answers]
    /\ requests \in [Workers -> 0..MaxRequests]
    /\ created \in [Thumbs -> Nat] /\ harmed \subseteq Thumbs /\ settled \in [Workers -> BOOLEAN]

Init ==
    /\ original \in BOOLEAN
    /\ file = [t \in Thumbs |-> Absent]
    /\ pc = [w \in Workers |-> "idle"] /\ want \in [Workers -> Thumbs]
    /\ size = [w \in Workers |-> 0] /\ data = [w \in Workers |-> <<>>]
    /\ at = [w \in Workers |-> 0]
    /\ http_status = [w \in Workers |-> 0]
    /\ answer = [w \in Workers |-> NoAnswer]
    /\ requests = [w \in Workers |-> 0]
    /\ created = [t \in Thumbs |-> 0] /\ harmed = {} /\ settled = [w \in Workers |-> FALSE]

\* nobody is about to write the file of the thumbnail, and it is complete
Making(t)  == {w \in Workers : /\ pc[w] \in {"original", "convert", "create", "write"}
                              /\ want[w] = t}
Settled(t) == file[t] = Complete /\ Making(t) = {}

Set(f, w, value) == [f EXCEPT ![w] = value]
Go(w, label) == pc' = Set(pc, w, label)
Store == <<original, file, created, harmed>>
Asked == <<answer, requests, settled>>

\* the request is over with a status, or the image is there (0)
Over(w, status) == http_status' = Set(http_status, w, status) /\ Go(w, "answer")

\* the variables of _mod_autothumb_subrequest() are set up
Begin(w) ==
    /\ pc[w] = "idle" /\ requests[w] < MaxRequests
    /\ requests' = Set(requests, w, requests[w] + 1)
    /\ size' = Set(size, w, 0) /\ data' = Set(data, w, <<>>) /\ at' = Set(at, w, 0)
    /\ UNCHANGED <<Store, answer>>

\* a GET of a thumbnail: its format and its file type are configured
Request(w, t) ==
    /\ Begin(w)
    /\ want' = Set(want, w, t) /\ http_status' = Set(http_status, w, 0)
    /\ settled' = Set(settled, w, Settled(t))
    /\ Go(w, "fetch")

\* a format or type that is not configured; or (0) another method, or
\* autothumb.enable is off, and no plugin takes the request
RequestRefused(w) ==
    /\ Begin(w)
    /\ \E status \in {0, 404} : Over(w, status)
    /\ settled' = Set(settled, w, FALSE) /\ UNCHANGED want

AlwaysAnew(f) == FALSE                   \* mutant: the store is not asked
FoundAny(f) == f \notin {Absent, <<>>}   \* mutant: an empty file is no file
Found(f) == f # Absent

\* file_fetch_file() of the thumbnail: fopen(), ...
Fetch(w) ==
    /\ pc[w] = "fetch"
    /\ Go(w, IF Found(file[want[w]]) THEN "size" ELSE "original")
    /\ UNCHANGED <<Store, local, Asked>>

WithTerminator(f) == Len(f) + 1          \* mutant: one byte more
FileSize(f) == Len(f)

\* ... fseek() and ftell(), ...
FetchSize(w) ==
    /\ pc[w] = "size"
    /\ size' = Set(size, w, FileSize(file[want[w]]))
    /\ Go(w, "read")
    /\ UNCHANGED <<Store, want, data, at, http_status, Asked>>

\* ... malloc() and fread() of as much; where the file has become shorter the
\* bytes stay what malloc() returned
FetchRead(w) ==
    /\ pc[w] = "read" /\ at[w] < size[w]
    /\ at' = Set(at, w, at[w] + 1)
    /\ LET f == file[want[w]] IN
       data' = [data EXCEPT ![w] =
           Append(@, IF at[w] < Len(f) THEN f[at[w] + 1] ELSE "garbage")]
    /\ UNCHANGED <<Store, pc, want, size, http_status, Asked>>

\* file_get_file_info(), whose time stamps are left out
FetchInfo(w) ==
    /\ pc[w] = "read" /\ at[w] = size[w]
    /\ Over(w, 0)
    /\ UNCHANGED <<Store, want, size, data, at, Asked>>

FetchOriginal(w) ==
    /\ pc[w] = "original"
    /\ IF original THEN Go(w, "convert") /\ UNCHANGED http_status ELSE Over(w, 404)
    /\ UNCHANGED <<Store, want, size, data, at, Asked>>

\* get_transition_image_blob(); the image library may fail
Convert(w) ==
    /\ pc[w] = "convert"
    /\ \/ /\ data' = Set(data, w, Complete) /\ size' = Set(size, w, Blocks)
          /\ at' = Set(at, w, 0) /\ Go(w, "create") /\ UNCHANGED http_status
       \/ Over(w, 500) /\ UNCHANGED <<data, size, at>>
    /\ UNCHANGED <<Store, want, Asked>>

\* file_save_slave_file(): fopen() truncates the file, or fails, ...
Create(w) ==
    /\ pc[w] = "create"
    /\ \/ /\ file' = [file EXCEPT ![want[w]] = <<>>]
          /\ created' = [created EXCEPT ![want[w]] = @ + 1]
          /\ Go(w, "write") /\ UNCHANGED http_status
       \/ Over(w, 500) /\ UNCHANGED <<file, created>>
    /\ UNCHANGED <<original, harmed, want, size, data, at, Asked>>

Appended(f, k) == Append(f, "data")      \* mutant: the file is opened for appending

\* file f after its block k was written
Written(f, k) ==
    [j \in 1..(IF k > Len(f) THEN k ELSE Len(f)) |->
        IF j = k THEN "data" ELSE IF j <= Len(f) THEN f[j] ELSE "hole"]

\* ... fwrite() and fclose() write block after block; nobody looks whether the
\* rest could be written
Write(w) ==
    /\ pc[w] = "write" /\ at[w] < Blocks
    /\ \/ /\ file' = [file EXCEPT ![want[w]] = Written(@, at[w] + 1)]
          /\ at' = Set(at, w, at[w] + 1)
          /\ UNCHANGED harmed
       \/ /\ DiskFull /\ at' = Set(at, w, Blocks)
          /\ harmed' = harmed \cup {want[w]} /\ UNCHANGED file
    /\ UNCHANGED <<original, created, pc, want, size, data, http_status, Asked>>

\* file_get_file_info() again
Saved(w) ==
    /\ pc[w] = "write" /\ at[w] = Blocks
    /\ Over(w, 0)
    /\ UNCHANGED <<Store, want, size, data, at, Asked>>

\* the image is put into write_queue; connection_handle_write_prepare() adds a
\* page to an error, which finishes the answer too
Finished(w) == size[w] > 0 \/ http_status[w] >= 400

Answer(w) ==
    /\ pc[w] = "answer"
    /\ answer' = Set(answer, w,
         [status |-> IF http_status[w] = 0 THEN 200 ELSE http_status[w],
          file_finished |-> Finished(w)])
    /\ Go(w, "idle")
    /\ UNCHANGED <<Store, local, requests, settled>>

\* a worker dies and the parent starts another one
Crash(w) ==
    /\ Crashes /\ pc[w] # "idle"
    /\ Go(w, "idle") /\ answer' = Set(answer, w, NoAnswer)
    /\ harmed' = harmed \cup {t \in Thumbs : pc[w] = "write" /\ want[w] = t}
    /\ UNCHANGED <<original, file, created, local, requests, settled>>

Step(w) == \/ Fetch(w) \/ FetchSize(w) \/ FetchRead(w) \/ FetchInfo(w)
           \/ FetchOriginal(w) \/ Convert(w)
           \/ Create(w) \/ Write(w) \/ Saved(w) \/ Answer(w)

Next == \E w \in Workers :
            \/ \E t \in Thumbs : Request(w, t)
            \/ RequestRefused(w) \/ Step(w) \/ Crash(w)

Spec == Init /\ [][Next]_vars

-----------------------------------------------------------------------------
(***************************************************************************)
(* Properties.                                                             *)
(***************************************************************************)
Writing(t) == {w \in Workers : pc[w] = "write" /\ want[w] = t}

(***************************************************************************)
(* However many workers write one thumbnail at the same time, truncate it  *)
(* under each other and write into what the other has truncated: when the  *)
(* last of them has closed it, it is complete (unless one of them died     *)
(* while it wrote, or the disk was full).                                  *)
(***************************************************************************)
StoreSettles ==
    \A t \in Thumbs \ harmed : Writing(t) = {} => file[t] \in {Absent, Complete}

(***************************************************************************)
(* A thumbnail is made at most once by each worker: they may all start at  *)
(* once, but what one of them has begun is found by every later request,   *)
(* even one that finds it empty.                                           *)
(***************************************************************************)
MadeOncePerWorker == \A t \in Thumbs : created[t] <= Cardinality(Workers)

(***************************************************************************)
(* Once a thumbnail is complete and nobody is at making it, it stays so:   *)
(* no request, failure or death of a worker damages it any more.           *)
(***************************************************************************)
SettledStays == [][\A t \in Thumbs : Settled(t) => Settled(t)']_vars

(***************************************************************************)
(* A request for a thumbnail that was settled when it came is answered     *)
(* with the whole image, whatever the other workers do in the meantime.    *)
(***************************************************************************)
SettledServed ==
    \A w \in Workers : pc[w] = "answer" /\ settled[w] => data[w] = Complete

(***************************************************************************)
(* The three together: what the store holds and what is served from it.    *)
(***************************************************************************)
StoreServes == StoreSettles /\ MadeOncePerWorker /\ SettledServed

(***************************************************************************)
(* connections.c:1487, where a handler has finished a request and the      *)
(* status is 200: "we have something to send, go on".  An answer that is   *)
(* not finished then has to get more content from somebody.                *)
(***************************************************************************)
SomethingToSend == \A w \in Workers : answer[w].status = 200 => answer[w].file_finished
=============================================================================
