-------------------------------- MODULE Fastdfs --------------------------------
(***************************************************************************)
(* mod_fastdfs: images out of a FastDFS store.  A file that is not there,  *)
(* and whose name is that of another one with a size behind it, is made    *)
(* from this one and kept as its slave.  Workers ask the same store, one   *)
(* call after the other, and whoever owns the images deletes some.         *)
(*                                                                         *)
(* A name is [base, sizes, type]: "b_1_2.jpg" is b with two sizes; a size  *)
(* is "n", a number, "0", which is none to resize to, or "x", no number.   *)
(* Content is a sequence of units <<name, i>>, a NUL is <<>>.  The code    *)
(* keeps content in a buffer, whose "used" counts a NUL behind it - or not.*)
(***************************************************************************)
EXTENDS Integers, Sequences, FiniteSets, SequencesExt

CONSTANTS
    Masters,            \* what is in the store at first
    SizeOf(_),          \* units of the file of a name
    filesizes,          \* "*" or sizes, in the order of the configuration
    filetypes, enable,
    Requests,           \* [name, method, range, current]
    Workers,            \* bound: one request each
    MaxFaults,          \* bound: calls that fail
    MaxDeletions        \* bound

Sizes == {"n", "0", "x"}
\* the sizes of the configuration are pairs; the files of the store have a length; ranges as they are parsed
FastdfsAssumption ==
    /\ \A k \in 1..Len(filesizes) : filesizes[k] = <<"*">> \/ (filesizes[k] \in Seq(Sizes) /\ Len(filesizes[k]) = 2)
    /\ \A n \in Masters : SizeOf(n) \in Nat
    /\ \A r \in Requests : r.method = "GET" =>
          /\ r.name = [base |-> r.name.base, sizes |-> r.name.sizes, type |-> r.name.type]
          /\ r.name.sizes \in Seq(Sizes) /\ SizeOf(r.name) \in Nat
          /\ r.range \in Seq([kind : {"word", "suffix", "from", "span"}, a : Nat, b : Nat])

VARIABLES
    files,              \* of each name that is in the store: its content
    work,               \* of each worker: [pc, request, made, content, answer]
    faults, deletions

vars == <<files, work, faults, deletions>>

Units(name) == [i \in 1..SizeOf(name) |-> <<name, i>>]
NUL == <<>>
NoAnswer == [status |-> 0, body |-> <<>>, told |-> <<>>, file_finished |-> FALSE]
Idle == [pc |-> "idle", request |-> [method |-> "none"], made |-> FALSE, content |-> <<>>, answer |-> NoAnswer]

Init ==
    /\ files = [n \in Masters |-> Units(n)]
    /\ work = [w \in Workers |-> Idle] /\ faults = 0 /\ deletions = 0

-----------------------------------------------------------------------------
is_numeric(size) == size # "x"
Decides(size, name) ==
    name.type \in filetypes /\ (size = <<"*">> \/ IsSuffix(size, name.sizes))
FirstSize(name) == {k \in 1..Len(filesizes) : Decides(filesizes[k], name) /\ \A j \in 1..(k - 1) : ~Decides(filesizes[j], name)}
\* any two numbers, or just those that are configured
TwoNumbers(name) == Len(name.sizes) > 1 /\ \A i \in 0..1 : is_numeric(name.sizes[Len(name.sizes) - i])
is_covert(name) == enable /\ \E k \in FirstSize(name) : filesizes[k] = <<"*">> => TwoNumbers(name)
file_hw(name) == [i \in 1..2 |-> name.sizes[Len(name.sizes) - 2 + i]]
Original(name) == [name EXCEPT !.sizes = SubSeq(@, 1, Len(@) - 2)]
\* what is uploaded as the slave of a file under a prefix is found under this name
Slave(original, prefix) == [original EXCEPT !.sizes = @ \o prefix]

\* magic_resize(): a whole image, and no NUL behind it
Resizable(hw) == \A i \in 1..2 : hw[i] = "n"

-----------------------------------------------------------------------------
Finish(w, status) == [work EXCEPT ![w].pc = "done", ![w].answer = [NoAnswer EXCEPT !.status = status, !.file_finished = TRUE]]
Goto(w, pc) == [work EXCEPT ![w].pc = pc]
NotThere(w) == work' = Finish(w, 404)
Failing(w) == faults < MaxFaults /\ faults' = faults + 1 /\ work' = Finish(w, 500) /\ UNCHANGED files
Name(w) == work[w].request.name
Working(w, pc) == work[w].pc = pc /\ UNCHANGED deletions

\* another method is not looked at any more: nobody else has it either, and nothing ends the answer
Start(w, r) ==
    /\ Working(w, "idle") /\ UNCHANGED <<files, faults>>
    /\ work' = [work EXCEPT ![w] =
           [Idle EXCEPT !.request = r, !.pc = IF r.method = "GET" THEN "connect" ELSE "done",
                        !.answer = IF r.method = "GET" THEN @
                                   ELSE [NoAnswer EXCEPT !.status = 200, !.file_finished = r.method = "HEAD"]]]

Connect(w) ==
    /\ Working(w, "connect")
    /\ \/ work' = Goto(w, "info") /\ UNCHANGED <<files, faults>>
       \/ Failing(w)

\* fdfs_get_file_info1()
Info(w) ==
    /\ Working(w, "info")
    /\ \/ /\ CASE Name(w) \in DOMAIN files -> work' = Goto(w, "download")
               [] Name(w) \notin DOMAIN files /\ is_covert(Name(w)) -> work' = Goto(w, "original")
               [] OTHER -> NotThere(w)
          /\ UNCHANGED <<files, faults>>
       \/ Failing(w)

\* storage_download_file1(), with the NUL it puts behind the file
Download(w) ==
    /\ Working(w, "download")
    /\ \/ /\ IF Name(w) \in DOMAIN files
             THEN work' = [work EXCEPT ![w].pc = "send", ![w].content = Append(files[Name(w)], NUL)]
             ELSE NotThere(w)
          /\ UNCHANGED <<files, faults>>
       \/ Failing(w)

\* the original is downloaded and resized
Resize(w) ==
    LET original == Original(Name(w))
    IN  /\ Working(w, "original")
        /\ \/ /\ CASE original \notin DOMAIN files -> NotThere(w)
                   [] original \in DOMAIN files /\ Resizable(file_hw(Name(w))) ->
                        work' = [work EXCEPT ![w].pc = "upload", ![w].made = TRUE,
                                             ![w].content = Units(Slave(original, file_hw(Name(w))))]
                   [] OTHER -> work' = Finish(w, 500)
              /\ UNCHANGED <<files, faults>>
           \/ Failing(w)

\* storage_upload_slave_by_filebuff1(): whether it worked is not asked, the information is asked for again.
\* It does not work for what is there already, and not without a master.
Upload(w) ==
    LET slave == Slave(Original(Name(w)), file_hw(Name(w)))
    IN  /\ Working(w, "upload") /\ work' = Goto(w, "again")
        /\ \/ /\ files' = IF slave \in DOMAIN files \/ Original(Name(w)) \notin DOMAIN files THEN files
                          ELSE [n \in DOMAIN files \cup {slave} |-> IF n = slave THEN work[w].content ELSE files[n]]
              /\ UNCHANGED faults
           \/ faults < MaxFaults /\ faults' = faults + 1 /\ UNCHANGED files
Again(w) ==
    /\ Working(w, "again")
    /\ \/ /\ IF Name(w) \in DOMAIN files THEN work' = Goto(w, "send") ELSE NotThere(w)
          /\ UNCHANGED <<files, faults>>
       \/ Failing(w)

-----------------------------------------------------------------------------
\* buffer_append_string(b, ""): a NUL at the place of the last one, which is not always there
Terminated(b) == [b EXCEPT ![Len(b)] = NUL]
\* mutant: the whole buffer is sent
AllOf(b) == b
\* chunkqueue_append_buffer() leaves the last place of a buffer out
Chunk(b) == Front(b)
\* chunkqueue_append_mem() too
Memory(b, start, end) == SubSeq(b, start + 1, end)

(***************************************************************************)
(* http_response_parse_range(), as in mod_staticfile but with "used" for   *)
(* the size.  What is in order is sent even when a later range is not.     *)
(***************************************************************************)
Begin(b) == [start |-> 0, end |-> Len(b) - 1, body |-> <<>>, status |-> 0, multipart |-> FALSE, error |-> FALSE, ended |-> FALSE]
Refuse(s, status) == [s EXCEPT !.error = TRUE, !.status = status]
Place(s, b, start, end, more) ==
    LET from == IF start < 0 THEN 0 ELSE start
        to == IF end > Len(b) - 1 THEN Len(b) - 1 ELSE end
    IN  IF from > Len(b) - 1 THEN Refuse(s, 416)
        ELSE [s EXCEPT !.start = from, !.end = to, !.multipart = @ \/ more, !.body = @ \o Memory(b, from, to)]
OneRange(s, b, e, more) ==
    CASE e.kind = "word" -> IF more THEN Refuse(s, 0) ELSE [s EXCEPT !.ended = TRUE]
      [] e.kind = "suffix" -> IF e.a = 0 THEN Refuse(s, 416) ELSE Place(s, b, Len(b) - e.a, Len(b) - 1, more)
      [] e.kind = "from" -> Place(s, b, e.a, Len(b) - 1, more)
      [] OTHER -> IF e.a > e.b THEN Refuse(s, 0) ELSE Place(s, b, e.a, e.b, more)
http_response_parse_range(b, ranges) ==
    LET scan[i \in 0..Len(ranges)] ==
            IF i = 0 THEN Begin(b)
            ELSE IF scan[i - 1].error \/ scan[i - 1].ended THEN scan[i - 1]
                 ELSE OneRange(scan[i - 1], b, ranges[i], i < Len(ranges))
    IN  scan[Len(ranges)]

\* 200 is what http_status 0 becomes, when somebody has finished the request
Ranged(b, ranges) ==
    LET s == http_response_parse_range(b, ranges)
        status == CASE ~s.error -> 206 [] s.error /\ s.status = 0 -> 200 [] OTHER -> s.status
    IN  [status |-> status, body |-> s.body, file_finished |-> TRUE,
         told |-> IF s.error \/ s.multipart THEN <<>> ELSE <<s.start, s.end>>]

Send(w) ==
    LET r == work[w].request
        b == Terminated(work[w].content)
    IN  /\ Working(w, "send") /\ UNCHANGED <<files, faults>>
        /\ work' = [work EXCEPT ![w].pc = "done", ![w].answer =
              CASE r.current -> [NoAnswer EXCEPT !.status = 304, !.file_finished = TRUE]
                [] ~r.current /\ r.range # <<>> -> Ranged(b, r.range)
                [] OTHER -> [NoAnswer EXCEPT !.status = 200, !.body = Chunk(b), !.file_finished = TRUE]]

Delete(n) ==
    /\ deletions < MaxDeletions /\ deletions' = deletions + 1
    /\ files' = [m \in DOMAIN files \ {n} |-> files[m]] /\ UNCHANGED <<work, faults>>

Next ==
    \/ \E w \in Workers :
          \/ \E r \in Requests : Start(w, r)
          \/ Connect(w) \/ Info(w) \/ Download(w) \/ Resize(w) \/ Upload(w) \/ Again(w) \/ Send(w)
    \/ \E n \in DOMAIN files : Delete(n)

Spec == Init /\ [][Next]_vars

-----------------------------------------------------------------------------
TypeOK ==
    /\ \A w \in Workers :
           /\ work[w].pc \in {"idle", "connect", "info", "download", "original", "upload", "again", "send", "done"}
           /\ work[w].answer.status \in {0, 200, 206, 304, 404, 416, 500}
    /\ faults \in 0..MaxFaults /\ deletions \in 0..MaxDeletions

(***************************************************************************)
(* A slave is the whole image of its name, whoever made it.                *)
(***************************************************************************)
Stored == \A n \in DOMAIN files : files[n] = Units(n)

(***************************************************************************)
(* An answer is the file of the name that was asked for; the one that made *)
(* it lacks the last unit, and has the same validators.  A range names one *)
(* more than it has, and what it has is at the place it names.             *)
(***************************************************************************)
Answered(w) == work[w].pc = "done" /\ work[w].request.method = "GET"
Sent ==
    \A w \in Workers : Answered(w) =>
        LET a == work[w].answer
            whole == Units(Name(w))
        IN  /\ a.status = 200 /\ work[w].request.range = <<>> => a.body = IF work[w].made THEN Front(whole) ELSE whole
            /\ a.told # <<>> => a.body = IF work[w].request.range[1].kind = "word" THEN <<>>
                                         ELSE Memory(whole, a.told[1], a.told[2])
            /\ ToSet(a.body) \subseteq ToSet(whole)

(***************************************************************************)
(* Workers that make the same image do not disturb each other: unless a    *)
(* call fails or something is deleted, who asks for what is there, or can  *)
(* be made, gets it.                                                       *)
(***************************************************************************)
CanBeMade(n) == is_covert(n) /\ Original(n) \in Masters /\ Resizable(file_hw(n))
Found ==
    faults = 0 /\ deletions = 0 =>
        \A w \in Workers : Answered(w) /\ (Name(w) \in Masters \/ CanBeMade(Name(w))) =>
            work[w].answer.status \notin {404, 500}

FastdfsRight == Stored /\ Sent /\ Found
=============================================================================
