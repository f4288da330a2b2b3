------------------------------ MODULE StaticFile ------------------------------
(***************************************************************************)
(* mod_staticfile: a file that others change, a client that keeps what it  *)
(* got with its validators, and what it asks with them: conditions         *)
(* (http_response_handle_cachable()), ranges (http_response_parse_range()) *)
(* and If-Range.  Dates are seconds; the stat cache is left out.           *)
(*                                                                         *)
(* A range is [kind, a, b]: "span" a-b, "from" a-, "suffix" -a, "bad" what *)
(* is none of them, "word" the rest of the line without a "-".             *)
(***************************************************************************)
EXTENDS Integers, Sequences, SequencesExt, TLC

CONSTANTS
    Ranges,             \* the Range headers, each a sequence
    Sizes,
    etag_flags,         \* a subset of {"inode", "size", "mtime"}
    FILE_CACHE_MAX,
    MaxChanges, MaxClock \* bounds

VARIABLES
    file,               \* [version, size, mtime, inode, kind]
    clock,
    mtime_cache,        \* server: the dates that were formatted, [mtime, str]
    held,               \* the client's copy: [version, etag, mtime]
    answer,             \* to the last request
    honest              \* the dates and sizes have told every change

vars == <<file, clock, mtime_cache, held, answer, honest>>

NoCopy == [version |-> 0, etag |-> <<>>, mtime |-> 0]
NoAnswer == [status |-> -1]

Init ==
    /\ \E n \in Sizes : file = [version |-> 1, size |-> n, mtime |-> 1, inode |-> 1, kind |-> "regular"]
    /\ clock = 1 /\ mtime_cache = [i \in 1..FILE_CACHE_MAX |-> [mtime |-> 0, str |-> 0]]
    /\ held = NoCopy /\ answer = NoAnswer /\ honest = TRUE

-----------------------------------------------------------------------------
\* etag_create() and etag_mutate(), whose hash is taken to keep them apart
etag_create == <<IF "inode" \in etag_flags THEN file.inode ELSE 0,
                 IF "size" \in etag_flags THEN file.size ELSE 0,
                 IF "mtime" \in etag_flags THEN file.mtime ELSE 0>>
NoEtag == <<>>
Other == <<0>>
Etag == IF etag_flags = {} THEN NoEtag ELSE etag_create

\* the slot of a date, an empty one, or the first when all are taken
Slot(t) ==
    LET fits == {i \in 1..FILE_CACHE_MAX : mtime_cache[i].mtime \in {0, t}}
    IN  IF fits = {} THEN 1 ELSE CHOOSE i \in fits : \A j \in fits : i <= j
strftime_cache_get(t) ==
    IF mtime_cache[Slot(t)].mtime = t THEN mtime_cache
    ELSE [mtime_cache EXCEPT ![Slot(t)] = [mtime |-> t, str |-> t]]
\* mutant: the text of a slot is kept
KeepsText(t) ==
    IF mtime_cache[Slot(t)].mtime = t THEN mtime_cache
    ELSE [mtime_cache EXCEPT ![Slot(t)].mtime = t, ![Slot(t)].str = IF @ = 0 THEN t ELSE @]
Dates(t) == strftime_cache_get(t)

(***************************************************************************)
(* http_response_handle_cachable(): 0 goes on, 200 is finished without a   *)
(* status.  The date of the client is a number, "prefix" (the beginning of *)
(* that of the file), "bad" or "long".                                     *)
(***************************************************************************)
DateSince(ims, mtime, refused) ==
    CASE ims = [text |-> "time", t |-> mtime] -> 304
      [] ims.text = "prefix" -> 200
      [] ims.text \in {"bad", "long"} -> refused
      [] OTHER -> IF mtime > ims.t THEN 0 ELSE 304
\* mutant: a date is taken for the date of the file
AnySince(ims, mtime, refused) == IF ims.text = "time" THEN 304 ELSE refused
NotModified(ims, mtime, refused) == DateSince(ims, mtime, refused)

handle_cachable(r, mtime) ==
    IF r.if_none_match.given
    THEN IF Etag = NoEtag \/ r.if_none_match.etag # Etag THEN 0
         ELSE IF r.method \notin {"GET", "HEAD"} THEN 412
         ELSE IF r.if_modified_since.text = "none" THEN 304
         ELSE NotModified(r.if_modified_since, mtime, 412)
    ELSE IF r.if_modified_since.text = "none" THEN 0
    ELSE NotModified(r.if_modified_since, mtime, 0)

-----------------------------------------------------------------------------
\* one range of http_response_parse_range()
Begin == [parts |-> <<>>, multipart |-> FALSE, error |-> FALSE, status |-> 0, ended |-> FALSE]
Fail(s, status) == [s EXCEPT !.error = TRUE, !.status = status]
Greatest(a, b) == IF a >= b THEN a ELSE b
Smallest(a, b) == IF a <= b THEN a ELSE b
Place(s, start, end, more) ==
    LET a == Greatest(start, 0)
        b == Smallest(end, file.size - 1)
        t == [s EXCEPT !.multipart = @ \/ more]
    IN  IF a > file.size - 1 THEN Fail(t, 416)
        ELSE [t EXCEPT !.parts = Append(@, [start |-> a, end |-> b, header |-> t.multipart])]
OneRange(s, e, more) ==
    CASE s.error \/ s.ended -> s
      [] e.kind = "word" -> IF more THEN Fail(s, 0) ELSE [s EXCEPT !.ended = TRUE]
      [] e.kind = "suffix" -> IF e.a = 0 THEN Fail(s, 416)
                              ELSE Place(s, file.size - e.a, file.size - 1, more)
      [] e.kind = "from" -> Place(s, e.a, file.size - 1, more)
      [] e.kind = "span" -> IF e.a > e.b THEN Fail(s, 0) ELSE Place(s, e.a, e.b, more)
      [] OTHER -> Fail(s, 0)
parse_range(ranges) ==
    FoldLeft(LAMBDA s, i : IF s.error \/ s.ended THEN s ELSE OneRange(s, ranges[i], i < Len(ranges)),
             Begin, [i \in 1..Len(ranges) |-> i])

\* If-Range: an etag, or a date
Applies(r, mtime) ==
    CASE r.if_range.text = "none" -> TRUE
      [] r.if_range.text = "etag" -> Etag # NoEtag /\ r.if_range.etag = Etag
      [] OTHER -> mtime # 0 /\ r.if_range.t = mtime

-----------------------------------------------------------------------------
Answer(status, body) ==
    [status |-> status, body |-> body, version |-> file.version, etag |-> Etag, mtime |-> file.mtime,
     date |-> 0, multipart |-> FALSE, told |-> <<>>]
Whole == [start |-> 0, end |-> file.size - 1, header |-> FALSE]
WholeFile == IF file.size = 0 THEN <<>> ELSE <<Whole>>

Ranged(r) ==
    LET s == parse_range(r.range)
    IN  [Answer(IF s.error THEN s.status ELSE 206, s.parts) EXCEPT
            !.multipart = s.multipart,
            !.told = IF s.error \/ s.multipart THEN <<>> ELSE <<Last(s.parts)>>]

\* a file whose type is not known has no validators
Reply(r, cachable) ==
    LET mtime == IF cachable THEN file.mtime ELSE 0
        c == IF cachable THEN handle_cachable(r, mtime) ELSE 0
    IN  IF c # 0 THEN Answer(c, <<>>)
        ELSE IF r.range # <<>> /\ Applies(r, mtime) THEN Ranged(r)
        ELSE Answer(200, WholeFile)

Get(r, cachable) ==
    /\ answer = NoAnswer
    /\ IF file.kind = "regular"
       THEN /\ mtime_cache' = IF cachable THEN Dates(file.mtime) ELSE mtime_cache
            /\ answer' = [Reply(r, cachable) EXCEPT !.date = IF cachable THEN Dates(file.mtime)[Slot(file.mtime)].str ELSE 0]
                         @@ [request |-> r, had |-> held, cachable |-> cachable]
            /\ held' = IF answer'.status = 200 /\ answer'.body = WholeFile /\ cachable
                       THEN [version |-> file.version, etag |-> Etag, mtime |-> file.mtime] ELSE held
       ELSE /\ answer' = [NoAnswer EXCEPT !.status = IF file.kind = "symlink" THEN 403 ELSE 404]
            /\ UNCHANGED <<mtime_cache, held>>
    /\ UNCHANGED <<file, clock, honest>>

Done == answer # NoAnswer /\ answer' = NoAnswer /\ UNCHANGED <<file, clock, mtime_cache, held, honest>>

\* the validators of a request: those of the copy, or others
Dated(t) == [text |-> "time", t |-> t]
Plain == [method |-> "GET", range |-> <<>>, if_none_match |-> [given |-> FALSE],
          if_modified_since |-> [text |-> "none"], if_range |-> [text |-> "none"]]
Matches == {[given |-> FALSE], [given |-> TRUE, etag |-> Other]}
           \cup (IF held = NoCopy THEN {} ELSE {[given |-> TRUE, etag |-> held.etag]})
Since == {[text |-> "none"], [text |-> "prefix"], [text |-> "bad"]}
         \cup (IF held = NoCopy THEN {} ELSE {Dated(held.mtime)})
IfRanges == {[text |-> "none"]}
            \cup (IF held = NoCopy THEN {} ELSE {[text |-> "etag", etag |-> held.etag], Dated(held.mtime)})
Requests ==
    {[Plain EXCEPT !.method = m, !.if_none_match = e, !.if_modified_since = t] :
        m \in {"GET", "POST"}, e \in Matches, t \in Since}
    \cup {[Plain EXCEPT !.range = s, !.if_range = i] : s \in Ranges, i \in IfRanges}

\* someone writes the file: now, or with a date of before (cp -p)
Change(size, mtime) ==
    /\ file.version <= MaxChanges /\ answer = NoAnswer
    /\ file' = [file EXCEPT !.version = @ + 1, !.size = size, !.mtime = mtime]
    /\ honest' = (honest /\ mtime > file.mtime)
    /\ UNCHANGED <<clock, mtime_cache, held, answer>>
Replace(kind) ==
    /\ kind # file.kind /\ answer = NoAnswer /\ file' = [file EXCEPT !.kind = kind]
    /\ UNCHANGED <<clock, mtime_cache, held, answer, honest>>
Tick == answer = NoAnswer /\ clock < MaxClock /\ clock' = clock + 1 /\ UNCHANGED <<file, mtime_cache, held, answer, honest>>

Next ==
    \/ \E r \in Requests, cachable \in BOOLEAN : Get(r, cachable)
    \/ \E size \in Sizes, mtime \in 1..clock : Change(size, mtime)
    \/ \E kind \in {"regular", "symlink", "directory"} : Replace(kind)
    \/ Tick \/ Done

Spec == Init /\ [][Next]_vars

-----------------------------------------------------------------------------
TypeOK ==
    /\ file.version \in 1..MaxChanges + 1 /\ file.mtime \in 1..MaxClock /\ clock \in 1..MaxClock
    /\ answer.status \in {-1, 0, 200, 206, 304, 403, 404, 412, 416}

Given == answer.status \notin {-1, 403, 404}

(***************************************************************************)
(* A copy that the server calls current is current, and a range belongs to *)
(* the copy it is to complete - as long as dates tell the changes: not     *)
(* when a file is written twice in a second or put back with an old date.  *)
(***************************************************************************)
Fresh ==
    Given /\ honest /\ answer.cachable =>
        /\ answer.status = 304 => answer.had.version = answer.version
        /\ answer.status = 206 /\ answer.request.if_range.text # "none" => answer.had.version = answer.version

(***************************************************************************)
(* The parts of an answer are in the file, in the order they were asked    *)
(* for; an answer that says which range it has, has just this one.         *)
(***************************************************************************)
Inside == \A i \in 1..Len(answer.body) :
              /\ 0 <= answer.body[i].start /\ answer.body[i].start <= answer.body[i].end
              /\ answer.body[i].end < file.size
RangeRight ==
    Given => /\ Inside
             /\ answer.status = 206 =>
                    /\ answer.body # <<>>
                    /\ ~answer.multipart => answer.body = answer.told /\ ~Last(answer.body).header
                    /\ answer.multipart => \A i \in 1..Len(answer.body) : answer.body[i].header

(***************************************************************************)
(* The date in the header is the file's, however many dates the cache has  *)
(* seen.                                                                   *)
(***************************************************************************)
DateRight == Given /\ answer.cachable => answer.date = answer.mtime

StaticRight == Fresh /\ RangeRight /\ DateRight
=============================================================================
