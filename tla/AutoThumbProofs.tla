--------------------------- MODULE AutoThumbProofs ---------------------------
(***************************************************************************)
(* What AutoThumb promises of its store, for any number of workers,        *)
(* thumbnails, blocks and requests; and what Crop computes, for images and *)
(* rectangles of any size.                                                 *)
(***************************************************************************)
EXTENDS AutoThumb, FiniteSetTheorems, TLAPS

CONSTANTS Sides, Places, SizeModulus
VARIABLES image, format, scaled, offset, step
C == INSTANCE Crop WITH pc <- step

-----------------------------------------------------------------------------
(***************************************************************************)
(* Files.                                                                  *)
(***************************************************************************)
LEMMA ContentsSeq ==
    ASSUME NEW S, NEW f \in Contents(S)
    PROVE  /\ f \in Seq(S) /\ Len(f) \in 0..Blocks /\ f \in [1..Len(f) -> S]
<1>1. PICK n \in 0..Blocks : f \in [1..n -> S] BY DEF Contents
<1>2. n \in Nat BY AutoThumbAssumption
<1> QED BY <1>1, <1>2

LEMMA SeqContents ==
    ASSUME NEW S, NEW n \in 0..Blocks, NEW f \in [1..n -> S]
    PROVE  f \in Contents(S) /\ Len(f) = n
<1>1. n \in Nat BY AutoThumbAssumption
<1>2. f \in Contents(S) BY DEF Contents
<1> QED BY <1>1, <1>2

LEMMA FileSizes ==
    ASSUME NEW f \in Files
    PROVE  Len(f) \in 0..Blocks
<1>1. CASE f = Absent
  <2>1. Len(f) = 1 BY <1>1 DEF Absent
  <2> QED BY <2>1, AutoThumbAssumption
<1>2. CASE f \in Contents({"data", "hole"}) BY <1>2, ContentsSeq
<1> QED BY <1>1, <1>2 DEF Files

LEMMA EmptyFile == <<>> \in Contents({"data", "hole"}) /\ <<>> # Absent
<1>1. 0 \in 0..Blocks BY AutoThumbAssumption
<1>2. <<>> \in [1..0 -> {"data", "hole"}] OBVIOUS
<1>3. <<>> \in Contents({"data", "hole"}) BY <1>1, <1>2, SeqContents
<1>4. Len(<<>>) = 0 /\ Len(Absent) = 1 BY DEF Absent
<1> QED BY <1>3, <1>4

LEMMA CompleteFile ==
    /\ Complete \in Contents({"data", "hole"}) /\ Complete \in Bodies
    /\ Complete # Absent /\ Len(Complete) = Blocks
<1>1. Blocks \in 0..Blocks /\ 1 \in 1..Blocks BY AutoThumbAssumption
<1>2. Complete \in [1..Blocks -> {"data", "hole"}] BY DEF Complete
<1>3. Complete \in [1..Blocks -> {"data", "hole", "garbage"}] BY DEF Complete
<1>4. Complete[1] = "data" /\ Absent[1] = "absent" BY <1>1 DEF Complete, Absent
<1>5. Complete \in Contents({"data", "hole"}) /\ Len(Complete) = Blocks
  BY <1>1, <1>2, SeqContents
<1>6. Complete \in Bodies BY <1>1, <1>3, SeqContents DEF Bodies
<1> QED BY <1>4, <1>5, <1>6

\* a file all of whose blocks are written is complete
LEMMA AllWritten ==
    ASSUME NEW S, NEW f \in Contents(S),
           \A j \in 1..Blocks : j \in 1..Len(f) /\ f[j] = "data"
    PROVE  f = Complete
<1>1. f \in [1..Len(f) -> S] /\ Len(f) \in 0..Blocks BY ContentsSeq
<1>2. Len(f) = Blocks
  <2>1. Blocks \in 1..Blocks BY AutoThumbAssumption
  <2>2. Blocks \in 1..Len(f) BY <2>1
  <2>3. Blocks \in Nat /\ Len(f) \in Nat BY <1>1, AutoThumbAssumption
  <2>4. Len(f) <= Blocks /\ Blocks <= Len(f) BY <1>1, <2>2, <2>3
  <2> QED BY <2>3, <2>4
<1>3. f = [j \in 1..Blocks |-> f[j]] BY <1>1, <1>2
<1>4. \A j \in 1..Blocks : f[j] = "data" OBVIOUS
<1> QED BY <1>3, <1>4 DEF Complete

\* fwrite() of block k
LEMMA WrittenBlock ==
    ASSUME NEW f \in Contents({"data", "hole"}), NEW k \in 1..Blocks
    PROVE  LET g == Written(f, k) IN
           /\ g \in Contents({"data", "hole"})
           /\ Len(f) <= Len(g) /\ k <= Len(g) /\ g[k] = "data"
           /\ \A j \in 1..Len(f) : f[j] = "data" => g[j] = "data"
<1> DEFINE n == IF k > Len(f) THEN k ELSE Len(f)
<1>1. f \in [1..Len(f) -> {"data", "hole"}] /\ Len(f) \in 0..Blocks BY ContentsSeq
<1>2. n \in 0..Blocks /\ Len(f) <= n /\ k <= n /\ k \in 1..n BY <1>1, AutoThumbAssumption
<1>3. Written(f, k) = [j \in 1..n |->
          IF j = k THEN "data" ELSE IF j <= Len(f) THEN f[j] ELSE "hole"]
  BY DEF Written
<1> HIDE DEF n
<1>4. \A j \in 1..n : j <= Len(f) => j \in 1..Len(f) BY <1>1, <1>2, AutoThumbAssumption
<1>5. Written(f, k) \in [1..n -> {"data", "hole"}] BY <1>1, <1>3, <1>4
<1>6. Written(f, k) \in Contents({"data", "hole"}) /\ Len(Written(f, k)) = n
  BY <1>2, <1>5, SeqContents
<1>7. Written(f, k)[k] = "data" BY <1>2, <1>3
<1>8. ASSUME NEW j \in 1..Len(f), f[j] = "data" PROVE Written(f, k)[j] = "data"
  <2>1. j \in 1..n /\ j <= Len(f) BY <1>1, <1>2, AutoThumbAssumption
  <2> QED BY <1>3, <1>8, <2>1
<1> QED BY <1>2, <1>6, <1>7, <1>8

-----------------------------------------------------------------------------
(***************************************************************************)
(* Types.  A worker has read as many blocks as it counted; it does not     *)
(* begin to read or to write a file that does not exist.                   *)
(***************************************************************************)
Sound(w) ==
    /\ pc[w] \in {"fetch", "size"} => at[w] = 0 /\ data[w] = <<>>
    /\ pc[w] = "read" => Len(data[w]) = at[w] /\ at[w] <= size[w]
    /\ pc[w] = "create" => at[w] = 0
    /\ pc[w] \in {"size", "read", "write"} => file[want[w]] # Absent

ReadSoFar == \A w \in Workers : Sound(w)

Typed == TypeOK /\ ReadSoFar

LEMMA TypedInit == Init => Typed
<1> SUFFICES ASSUME Init PROVE Typed OBVIOUS
<1>1. 0 \in 0..Blocks /\ 0 \in 0..MaxRequests BY AutoThumbAssumption
<1>2. <<>> \in Bodies
  <2>1. <<>> \in [1..0 -> {"data", "hole", "garbage"}] OBVIOUS
  <2> QED BY <1>1, <2>1, SeqContents DEF Bodies
<1>3. TypeOK
  BY <1>1, <1>2 DEF Init, TypeOK, Files, Answers, NoAnswer
<1>4. ReadSoFar BY DEF Init, ReadSoFar, Sound
<1> QED BY <1>3, <1>4 DEF Typed

\* what a step of worker w does not touch
Alone(w) ==
    /\ \A v \in Workers \ {w} : /\ pc'[v] = pc[v] /\ want'[v] = want[v] /\ at'[v] = at[v]
                                /\ size'[v] = size[v] /\ data'[v] = data[v]
    /\ \A t \in Thumbs : file[t] # Absent => file'[t] # Absent

LEMMA AloneSound ==
    ASSUME Typed, NEW w \in Workers, Alone(w), Sound(w)'
    PROVE  ReadSoFar'
<1> SUFFICES ASSUME NEW v \in Workers, v # w PROVE Sound(v)'
  BY DEF ReadSoFar
<1>1. /\ pc'[v] = pc[v] /\ want'[v] = want[v] /\ at'[v] = at[v]
      /\ size'[v] = size[v] /\ data'[v] = data[v] /\ want[v] \in Thumbs
  BY DEF Alone, Typed, TypeOK
<1>2. file[want[v]] # Absent => file'[want[v]] # Absent BY <1>1 DEF Alone
<1>3. Sound(v) BY DEF Typed, ReadSoFar
<1> QED BY <1>1, <1>2, <1>3 DEF Sound

\* file f after its block k was written is a file
LEMMA WrittenFile ==
    ASSUME NEW f \in Files, f # Absent, NEW k \in 1..Blocks
    PROVE  Written(f, k) \in Contents({"data", "hole"}) /\ Written(f, k) # Absent
<1> DEFINE g == Written(f, k)
<1>1. f \in Contents({"data", "hole"}) BY DEF Files
<1>2. g \in Contents({"data", "hole"}) /\ g[k] = "data" /\ k <= Len(g)
  BY <1>1, WrittenBlock
<1> HIDE DEF g
<1>3. Len(g) \in 0..Blocks /\ g \in [1..Len(g) -> {"data", "hole"}] BY <1>2, ContentsSeq
<1>4. ASSUME g = Absent PROVE FALSE
  <2>1. Len(g) = 1 /\ g[1] = "absent" BY <1>4 DEF Absent
  <2> QED BY <1>3, <2>1
<1>5. g # Absent BY <1>4
<1> QED BY <1>2, <1>5 DEF g

LEMMA StepAlone ==
    ASSUME Typed, NEW w \in Workers,
           \/ \E t \in Thumbs : Request(w, t)
           \/ RequestRefused(w) \/ Step(w) \/ Crash(w)
    PROVE  Alone(w)
<1> USE DEF Set, Go, Over, Store, Asked, local
<1>1. ASSUME NEW t \in Thumbs, Request(w, t) PROVE Alone(w)
  BY <1>1 DEF Alone, Typed, TypeOK, Request, Begin
<1>2. CASE RequestRefused(w) BY <1>2 DEF Alone, Typed, TypeOK, RequestRefused, Begin
<1>3. CASE Fetch(w) \/ FetchSize(w) \/ FetchInfo(w) \/ FetchOriginal(w) \/ Convert(w)
  BY <1>3 DEF Alone, Typed, TypeOK, Fetch, FetchSize, FetchInfo, FetchOriginal, Convert
<1>4. CASE FetchRead(w)
  <2>1. file' = file /\ pc' = pc /\ want' = want /\ size' = size BY <1>4 DEF FetchRead
  <2>2. \A v \in Workers \ {w} : at'[v] = at[v] /\ data'[v] = data[v]
    BY <1>4 DEF FetchRead, Typed, TypeOK
  <2> QED BY <2>1, <2>2 DEF Alone
<1>5. CASE Create(w) BY <1>5, EmptyFile DEF Alone, Typed, TypeOK, Create
<1>6. CASE Write(w)
  <2>1. /\ at[w] + 1 \in 1..Blocks /\ file[want[w]] # Absent
        /\ want[w] \in Thumbs /\ file[want[w]] \in Files
    <3>1. at[w] \in Nat /\ Blocks \in Nat /\ at[w] < Blocks
      BY <1>6, AutoThumbAssumption DEF Typed, TypeOK, Write
    <3>2. Sound(w) /\ pc[w] = "write" BY <1>6 DEF Typed, ReadSoFar, Write
    <3> QED BY <3>1, <3>2 DEF Sound, Typed, TypeOK
  <2>2. Written(file[want[w]], at[w] + 1) # Absent BY <2>1, WrittenFile
  <2>3. \/ file' = file
        \/ file' = [file EXCEPT ![want[w]] = Written(file[want[w]], at[w] + 1)]
    BY <1>6 DEF Write
  <2>4. \A t \in Thumbs : file[t] # Absent => file'[t] # Absent
    BY <2>2, <2>3 DEF Typed, TypeOK
  <2>5. /\ pc' = pc /\ want' = want /\ size' = size /\ data' = data
        /\ \A v \in Workers \ {w} : at'[v] = at[v]
    BY <1>6 DEF Write, Typed, TypeOK
  <2> QED BY <2>4, <2>5 DEF Alone
<1>7. CASE Saved(w) \/ Answer(w) \/ Crash(w)
  BY <1>7 DEF Alone, Typed, TypeOK, Saved, Answer, Crash
<1> QED BY <1>1, <1>2, <1>3, <1>4, <1>5, <1>6, <1>7 DEF Step

LEMMA BlocksNat ==
    /\ Blocks \in Nat /\ MaxRequests \in Nat /\ 0 \in 0..Blocks /\ Blocks \in 0..Blocks
    /\ <<>> \in Bodies
<1>1. 0 \in 0..Blocks /\ <<>> \in [1..0 -> {"data", "hole", "garbage"}]
  BY AutoThumbAssumption
<1>2. <<>> \in Bodies BY <1>1, SeqContents DEF Bodies
<1> QED BY <1>1, <1>2, AutoThumbAssumption

\* fread() of one block
LEMMA ReadBlock ==
    ASSUME Typed, NEW w \in Workers, FetchRead(w)
    PROVE  /\ data' \in [Workers -> Bodies] /\ at' \in [Workers -> 0..Blocks]
           /\ Len(data'[w]) = at'[w] /\ at'[w] <= size[w] /\ at'[w] = at[w] + 1
           /\ data'[w] = Append(data[w], IF at[w] < Len(file[want[w]])
                                         THEN file[want[w]][at[w] + 1] ELSE "garbage")
<1> DEFINE f == file[want[w]]
           b == IF at[w] < Len(f) THEN f[at[w] + 1] ELSE "garbage"
<1>1. Sound(w) /\ pc[w] = "read" BY DEF FetchRead, Typed, ReadSoFar
<1>2. /\ at[w] \in 0..Blocks /\ size[w] \in 0..Blocks /\ at[w] < size[w]
      /\ Len(data[w]) = at[w] /\ f # Absent /\ data[w] \in Bodies /\ f \in Files
  BY <1>1 DEF FetchRead, Typed, TypeOK, Sound
<1>3. at[w] + 1 \in 0..Blocks /\ at[w] + 1 <= size[w] BY <1>2, BlocksNat
<1>4. f \in Contents({"data", "hole"}) BY <1>2 DEF Files
<1> HIDE DEF f
<1>5. b \in {"data", "hole", "garbage"}
  <2>1. f \in [1..Len(f) -> {"data", "hole"}] /\ Len(f) \in 0..Blocks BY <1>4, ContentsSeq
  <2>2. at[w] < Len(f) => at[w] + 1 \in 1..Len(f) BY <1>2, <2>1, BlocksNat
  <2> QED BY <2>1, <2>2
<1> HIDE DEF b
<1>6. /\ Append(data[w], b) \in Bodies /\ Len(Append(data[w], b)) = at[w] + 1
  <2>1. /\ data[w] \in [1..at[w] -> {"data", "hole", "garbage"}]
        /\ data[w] \in Seq({"data", "hole", "garbage"})
    BY <1>2, ContentsSeq DEF Bodies
  <2>2. Append(data[w], b) \in Seq({"data", "hole", "garbage"}) BY <1>5, <2>1
  <2>3. Len(Append(data[w], b)) = at[w] + 1 BY <1>2, <1>5, <2>1
  <2>4. \A q \in Seq({"data", "hole", "garbage"}) : q \in [1..Len(q) -> {"data", "hole", "garbage"}]
    OBVIOUS
  <2>5. Append(data[w], b) \in [1..(at[w] + 1) -> {"data", "hole", "garbage"}]
    BY <2>2, <2>3, <2>4
  <2> QED BY <1>3, <2>3, <2>5, SeqContents DEF Bodies
<1>7. data' = [data EXCEPT ![w] = Append(@, b)] BY DEF FetchRead, f, b
<1>8. at' = [at EXCEPT ![w] = at[w] + 1] BY DEF FetchRead, Set
<1>9. data' \in [Workers -> Bodies] BY <1>6, <1>7 DEF Typed, TypeOK
<1>10. at' \in [Workers -> 0..Blocks] BY <1>3, <1>8 DEF Typed, TypeOK
<1>11. data'[w] = Append(data[w], b) /\ at'[w] = at[w] + 1
  BY <1>7, <1>8 DEF Typed, TypeOK
<1> QED BY <1>3, <1>6, <1>9, <1>10, <1>11 DEF f, b

Labels == {"idle", "fetch", "size", "read", "original", "convert", "create", "write", "answer"}
States == {0, 404, 500}

LEMMA PlaceTyped ==
    ASSUME TypeOK
    PROVE  pc \in [Workers -> Labels] /\ http_status \in [Workers -> States]
BY DEF TypeOK, Labels, States

LEMMA TypeStep ==
    ASSUME Typed, NEW w \in Workers,
           \/ \E t \in Thumbs : Request(w, t)
           \/ RequestRefused(w) \/ Step(w) \/ Crash(w)
    PROVE  TypeOK'
<1> USE BlocksNat DEF Set, Go, Over, Store, Asked, local
<1>1. ASSUME NEW t \in Thumbs, Request(w, t) PROVE TypeOK'
  <2>1. requests' \in [Workers -> 0..MaxRequests]
    BY <1>1 DEF Typed, TypeOK, Request, Begin
  <2>2. settled' \in [Workers -> BOOLEAN]
    <3>1. Settled(t) \in BOOLEAN BY DEF Settled
    <3> QED BY <1>1, <3>1 DEF Typed, TypeOK, Request
  <2>3. size' \in [Workers -> 0..Blocks] /\ at' \in [Workers -> 0..Blocks]
    BY <1>1 DEF Typed, TypeOK, Request, Begin
  <2>4. data' \in [Workers -> Bodies] BY <1>1 DEF Typed, TypeOK, Request, Begin
  <2> QED BY <1>1, <2>1, <2>2, <2>3, <2>4 DEF Typed, TypeOK, Request, Begin
<1>2. CASE RequestRefused(w)
  <2>1. requests' \in [Workers -> 0..MaxRequests] /\ data' \in [Workers -> Bodies]
    BY <1>2 DEF Typed, TypeOK, RequestRefused, Begin
  <2>2. size' \in [Workers -> 0..Blocks] /\ at' \in [Workers -> 0..Blocks]
    BY <1>2 DEF Typed, TypeOK, RequestRefused, Begin
  <2> QED BY <1>2, <2>1, <2>2 DEF Typed, TypeOK, RequestRefused, Begin
<1>3. CASE Fetch(w) BY <1>3 DEF Typed, TypeOK, Fetch
<1>4. CASE FetchSize(w)
  <2>1. FileSize(file[want[w]]) \in 0..Blocks
    BY FileSizes DEF Typed, TypeOK, FileSize
  <2> QED BY <1>4, <2>1 DEF Typed, TypeOK, FetchSize
<1>5. CASE FetchRead(w) BY <1>5, ReadBlock DEF Typed, TypeOK, FetchRead
<1>6. CASE FetchInfo(w) BY <1>6 DEF Typed, TypeOK, FetchInfo
<1>7. CASE FetchOriginal(w)
  <2>1. \/ pc' = [pc EXCEPT ![w] = "convert"] /\ http_status' = http_status
        \/ pc' = [pc EXCEPT ![w] = "answer"] /\ http_status' = [http_status EXCEPT ![w] = 404]
    BY <1>7 DEF FetchOriginal
  <2>2. UNCHANGED <<original, file, created, harmed, want, size, data, at, answer, requests, settled>>
    BY <1>7 DEF FetchOriginal
  <2>3. pc' \in [Workers -> Labels] /\ http_status' \in [Workers -> States]
    BY <2>1, PlaceTyped DEF Typed, Labels, States
  <2> QED BY <2>2, <2>3 DEF Typed, TypeOK, Labels, States
<1>8. CASE Convert(w)
  <2>1. \/ /\ data' = [data EXCEPT ![w] = Complete] /\ size' = [size EXCEPT ![w] = Blocks]
           /\ at' = [at EXCEPT ![w] = 0] /\ pc' = [pc EXCEPT ![w] = "create"]
           /\ http_status' = http_status
        \/ /\ pc' = [pc EXCEPT ![w] = "answer"] /\ http_status' = [http_status EXCEPT ![w] = 500]
           /\ data' = data /\ size' = size /\ at' = at
    BY <1>8 DEF Convert
  <2>2. UNCHANGED <<original, file, created, harmed, want, answer, requests, settled>>
    BY <1>8 DEF Convert
  <2>3. Complete \in Bodies BY CompleteFile
  <2>4. /\ data' \in [Workers -> Bodies]
        /\ size' \in [Workers -> 0..Blocks] /\ at' \in [Workers -> 0..Blocks]
    <3>1. /\ data \in [Workers -> Bodies]
          /\ size \in [Workers -> 0..Blocks] /\ at \in [Workers -> 0..Blocks]
      BY DEF Typed, TypeOK
    <3> QED BY ZenonT(60), <2>1, <2>3, <3>1
  <2>5. pc' \in [Workers -> Labels] /\ http_status' \in [Workers -> States]
    BY <2>1, PlaceTyped DEF Typed, Labels, States
  <2> QED BY <2>2, <2>4, <2>5 DEF Typed, TypeOK, Labels, States
<1>9. CASE Create(w)
  <2>1. <<>> \in Files BY EmptyFile DEF Files
  <2>2. \/ /\ file' = [file EXCEPT ![want[w]] = <<>>]
           /\ created' = [created EXCEPT ![want[w]] = @ + 1]
           /\ pc' = [pc EXCEPT ![w] = "write"] /\ http_status' = http_status
        \/ /\ pc' = [pc EXCEPT ![w] = "answer"] /\ http_status' = [http_status EXCEPT ![w] = 500]
           /\ file' = file /\ created' = created
    BY <1>9 DEF Create
  <2>3. UNCHANGED <<original, harmed, want, size, data, at, answer, requests, settled>>
    BY <1>9 DEF Create
  <2>4. file' \in [Thumbs -> Files]
    <3>1. file \in [Thumbs -> Files] /\ want[w] \in Thumbs BY DEF Typed, TypeOK
    <3> QED BY <2>1, <2>2, <3>1
  <2>5. created' \in [Thumbs -> Nat]
    <3>1. \A t \in Thumbs : created[t] + 1 \in Nat BY DEF Typed, TypeOK
    <3> QED BY <2>2, <3>1 DEF Typed, TypeOK
  <2>6. pc' \in [Workers -> Labels] /\ http_status' \in [Workers -> States]
    BY <2>2, PlaceTyped DEF Typed, Labels, States
  <2> QED BY <2>3, <2>4, <2>5, <2>6 DEF Typed, TypeOK, Labels, States
<1>10. CASE Write(w)
  <2>1. /\ at[w] + 1 \in 1..Blocks /\ at[w] + 1 \in 0..Blocks /\ file[want[w]] # Absent
        /\ want[w] \in Thumbs /\ file[want[w]] \in Files
    <3>1. at[w] \in Nat /\ at[w] < Blocks
      BY <1>10 DEF Typed, TypeOK, Write
    <3>2. Sound(w) /\ pc[w] = "write" BY <1>10 DEF Typed, ReadSoFar, Write
    <3> QED BY <3>1, <3>2 DEF Sound, Typed, TypeOK
  <2>2. Written(file[want[w]], at[w] + 1) \in Files BY <2>1, WrittenFile DEF Files
  <2>3. file' \in [Thumbs -> Files]
    <3>1. \/ file' = file
          \/ file' = [file EXCEPT ![want[w]] = Written(file[want[w]], at[w] + 1)]
      BY <1>10 DEF Write
    <3>2. file \in [Thumbs -> Files] /\ want[w] \in Thumbs BY DEF Typed, TypeOK
    <3> QED BY <2>2, <3>1, <3>2
  <2>4. at' \in [Workers -> 0..Blocks]
    <3>1. at' = [at EXCEPT ![w] = at[w] + 1] \/ at' = [at EXCEPT ![w] = Blocks]
      BY <1>10 DEF Write
    <3>2. at \in [Workers -> 0..Blocks] /\ Blocks \in 0..Blocks BY DEF Typed, TypeOK
    <3> QED BY <2>1, <3>1, <3>2
  <2>5. harmed' \subseteq Thumbs BY <1>10, <2>1 DEF Typed, TypeOK, Write
  <2> QED BY <1>10, <2>3, <2>4, <2>5 DEF Typed, TypeOK, Write
<1>11. CASE Saved(w) BY <1>11 DEF Typed, TypeOK, Saved
<1>12. CASE Answer(w)
  <2>1. (IF http_status[w] = 0 THEN 200 ELSE http_status[w]) \in {0, 200, 404, 500}
    BY DEF Typed, TypeOK
  <2>2. Finished(w) \in BOOLEAN BY DEF Finished
  <2>3. answer' \in [Workers -> Answers]
    BY <1>12, <2>1, <2>2 DEF Typed, TypeOK, Answer, Answers
  <2> QED BY <1>12, <2>3 DEF Typed, TypeOK, Answer
<1>13. CASE Crash(w)
  <2>1. NoAnswer \in Answers BY DEF NoAnswer, Answers
  <2> QED BY <1>13, <2>1 DEF Typed, TypeOK, Crash
<1> QED
  BY <1>1, <1>2, <1>3, <1>4, <1>5, <1>6, <1>7, <1>8, <1>9, <1>10, <1>11, <1>12, <1>13
     DEF Step

LEMMA SoundStep ==
    ASSUME Typed, NEW w \in Workers,
           \/ \E t \in Thumbs : Request(w, t)
           \/ RequestRefused(w) \/ Step(w) \/ Crash(w)
    PROVE  Sound(w)'
<1> USE DEF Set, Go, Over, Store, Asked, local
<1>0. Sound(w) /\ want[w] \in Thumbs /\ Alone(w)
  BY StepAlone DEF Typed, TypeOK, ReadSoFar
<1>1. CASE \E t \in Thumbs : Request(w, t)
  <2>1. pc'[w] = "fetch" /\ at'[w] = 0 /\ data'[w] = <<>>
    BY <1>1 DEF Typed, TypeOK, Request, Begin
  <2> QED BY <2>1 DEF Sound
<1>2. CASE RequestRefused(w) \/ FetchInfo(w) \/ Saved(w) \/ Answer(w) \/ Crash(w)
  <2>1. pc'[w] \in {"idle", "answer"}
    BY <1>2 DEF Typed, TypeOK, RequestRefused, FetchInfo, Saved, Answer, Crash
  <2> QED BY <2>1 DEF Sound
<1>3. CASE Fetch(w)
  <2>1. /\ pc'[w] = (IF file[want[w]] # Absent THEN "size" ELSE "original")
        /\ at'[w] = 0 /\ data'[w] = <<>> /\ file' = file /\ want' = want
    BY <1>0, <1>3 DEF Typed, TypeOK, Sound, Fetch, Found
  <2> QED BY <2>1 DEF Sound
<1>4. CASE FetchSize(w)
  <2>1. FileSize(file[want[w]]) \in 0..Blocks
    BY FileSizes DEF Typed, TypeOK, FileSize
  <2>2. /\ pc'[w] = "read" /\ at'[w] = 0 /\ Len(data'[w]) = 0 /\ size'[w] \in 0..Blocks
        /\ file' = file /\ want' = want /\ file[want[w]] # Absent
    BY <1>0, <1>4, <2>1 DEF Typed, TypeOK, Sound, FetchSize
  <2>3. at'[w] <= size'[w] BY <2>2, AutoThumbAssumption
  <2> QED BY <2>2, <2>3 DEF Sound
<1>5. CASE FetchRead(w)
  <2>1. pc'[w] = "read" /\ file' = file /\ want' = want /\ size' = size /\ file[want[w]] # Absent
    BY <1>0, <1>5 DEF Sound, FetchRead
  <2>2. Len(data'[w]) = at'[w] /\ at'[w] <= size[w] BY <1>5, ReadBlock
  <2> QED BY <2>1, <2>2 DEF Sound
<1>6. CASE FetchOriginal(w)
  <2>1. pc'[w] \in {"convert", "answer"} BY <1>6 DEF Typed, TypeOK, FetchOriginal
  <2> QED BY <2>1 DEF Sound
<1>7. CASE Convert(w)
  <2>1. (pc'[w] = "create" /\ at'[w] = 0) \/ pc'[w] = "answer"
    BY <1>7 DEF Typed, TypeOK, Convert
  <2> QED BY <2>1 DEF Sound
<1>8. CASE Create(w)
  <2>1. \/ pc'[w] = "write" /\ file'[want'[w]] = <<>>
        \/ pc'[w] = "answer"
    BY <1>0, <1>8 DEF Typed, TypeOK, Create
  <2> QED BY <2>1, EmptyFile DEF Sound
<1>9. CASE Write(w)
  <2>1. pc'[w] = "write" /\ want' = want /\ file[want[w]] # Absent
    BY <1>0, <1>9 DEF Sound, Write
  <2>2. file'[want[w]] # Absent BY <1>0, <2>1 DEF Alone
  <2> QED BY <2>1, <2>2 DEF Sound
<1> QED BY <1>1, <1>2, <1>3, <1>4, <1>5, <1>6, <1>7, <1>8, <1>9 DEF Step

LEMMA TypedStep == Typed /\ [Next]_vars => Typed'
<1>1. ASSUME Typed, NEW w \in Workers,
             \/ \E t \in Thumbs : Request(w, t)
             \/ RequestRefused(w) \/ Step(w) \/ Crash(w)
      PROVE  Typed'
  BY <1>1, TypeStep, SoundStep, StepAlone, AloneSound DEF Typed
<1>2. Typed /\ UNCHANGED vars => Typed'
  BY DEF vars, local, Typed, TypeOK, ReadSoFar, Sound
<1> QED BY <1>1, <1>2 DEF Next

LEMMA AutoThumbTyped == Spec => []Typed
BY TypedInit, TypedStep, PTL DEF Spec

(***************************************************************************)
(* Every variable keeps its type: no worker reads more into its memory     *)
(* than it has allocated, and none has to deal with a file that went away. *)
(***************************************************************************)
THEOREM AutoThumbTypeOK == Spec => []TypeOK
<1>1. Typed => TypeOK BY DEF Typed
<1> QED BY <1>1, AutoThumbTyped, PTL

-----------------------------------------------------------------------------
(***************************************************************************)
(* StoreSettles: a block that is missing in the file is still ahead of a   *)
(* worker that writes it.  That holds for any number of writers, as each   *)
(* of them starts at the beginning after it has truncated the file.        *)
(***************************************************************************)
InFile(t, j) == j \in 1..Len(file[t]) /\ file[t][j] = "data"
Ahead(t, j)  == \E w \in Writing(t) : at[w] < j

Backed ==
    \A t \in Thumbs \ harmed : file[t] # Absent =>
        \A j \in 1..Blocks : InFile(t, j) \/ Ahead(t, j)

LEMMA BackedSettles == Typed /\ Backed => StoreSettles
<1> SUFFICES ASSUME Typed, Backed, NEW t \in Thumbs \ harmed, Writing(t) = {}, file[t] # Absent
             PROVE  file[t] = Complete
  BY DEF StoreSettles
<1>1. \A j \in 1..Blocks : j \in 1..Len(file[t]) /\ file[t][j] = "data"
  BY DEF Backed, InFile, Ahead
<1>2. file[t] \in Contents({"data", "hole"}) BY DEF Typed, TypeOK, Files
<1> QED BY <1>1, <1>2, AllWritten

\* a step that leaves the files and the writers alone
LEMMA BackedStays ==
    ASSUME Backed, file' = file, harmed \subseteq harmed',
           \A t \in Thumbs \ harmed' : \A w \in Writing(t) : w \in Writing(t)' /\ at'[w] = at[w]
    PROVE  Backed'
<1> SUFFICES ASSUME NEW t \in Thumbs \ harmed', file'[t] # Absent, NEW j \in 1..Blocks
             PROVE  InFile(t, j)' \/ Ahead(t, j)'
  BY DEF Backed
<1>1. InFile(t, j) \/ Ahead(t, j) BY DEF Backed
<1>2. InFile(t, j) => InFile(t, j)' BY DEF InFile
<1>3. ASSUME NEW w \in Writing(t), at[w] < j PROVE Ahead(t, j)'
  BY <1>3 DEF Ahead
<1> QED BY <1>1, <1>2, <1>3 DEF Ahead

\* a worker that is not writing goes on without beginning to
LEMMA QuietBacked ==
    ASSUME Typed, Backed, NEW w \in Workers, Alone(w), file' = file, harmed \subseteq harmed',
           pc[w] # "write" \/ want[w] \in harmed'
    PROVE  Backed'
<1> SUFFICES ASSUME NEW t \in Thumbs \ harmed', NEW v \in Writing(t)
             PROVE  v \in Writing(t)' /\ at'[v] = at[v]
  BY BackedStays
<1>1. v # w /\ v \in Workers /\ pc[v] = "write" /\ want[v] = t BY DEF Writing
<1>2. pc'[v] = pc[v] /\ want'[v] = want[v] /\ at'[v] = at[v] BY <1>1 DEF Alone
<1> QED BY <1>1, <1>2 DEF Writing

LEMMA BackedStep == Typed /\ Backed /\ [Next]_vars => Backed'
<1> USE DEF Set, Go, Over, Store, Asked, local
<1>1. ASSUME Typed, Backed, NEW w \in Workers,
             \/ \E t \in Thumbs : Request(w, t)
             \/ RequestRefused(w) \/ Step(w) \/ Crash(w)
      PROVE  Backed'
  <2>0. Alone(w) /\ Sound(w) /\ want[w] \in Thumbs
    BY <1>1, StepAlone DEF Typed, TypeOK, ReadSoFar
  <2>1. CASE \/ \E t \in Thumbs : Request(w, t)
             \/ RequestRefused(w) \/ Answer(w)
    <3>1. file' = file /\ harmed' = harmed /\ pc[w] # "write"
      BY <2>1 DEF Request, RequestRefused, Begin, Answer
    <3> QED BY <1>1, <2>0, <3>1, QuietBacked
  <2>2. CASE \/ Fetch(w) \/ FetchSize(w) \/ FetchRead(w) \/ FetchInfo(w)
             \/ FetchOriginal(w) \/ Convert(w)
    <3>1. file' = file /\ harmed' = harmed /\ pc[w] # "write"
      BY <2>2 DEF Fetch, FetchSize, FetchRead, FetchInfo, FetchOriginal, Convert
    <3> QED BY <1>1, <2>0, <3>1, QuietBacked
  <2>3. CASE Create(w)
    <3>1. CASE file' = file
      <4>1. harmed' = harmed /\ pc[w] # "write" BY <2>3 DEF Create
      <4> QED BY <1>1, <2>0, <3>1, <4>1, QuietBacked
    <3>2. CASE file' = [file EXCEPT ![want[w]] = <<>>]
                /\ pc' = [pc EXCEPT ![w] = "write"]
      <4>1. harmed' = harmed /\ at' = at /\ want' = want /\ at[w] = 0 /\ w \notin Writing(want[w])
        BY <2>0, <2>3 DEF Create, Sound, Writing
      <4>2. \A t \in Thumbs : Writing(t) \subseteq Writing(t)'
        BY <3>2, <4>1 DEF Writing, Typed, TypeOK
      <4>3. pc'[w] = "write" BY <1>1, <3>2 DEF Typed, TypeOK
      <4> SUFFICES ASSUME NEW t \in Thumbs \ harmed, file'[t] # Absent, NEW j \in 1..Blocks
                   PROVE  InFile(t, j)' \/ Ahead(t, j)'
        BY <4>1 DEF Backed
      <4>4. CASE t = want[w]
        <5>1. at'[w] < j BY <4>1, BlocksNat
        <5>2. w \in Writing(t)' BY <4>1, <4>3, <4>4 DEF Writing
        <5> QED BY <5>1, <5>2 DEF Ahead
      <4>5. CASE t # want[w]
        <5>1. file'[t] = file[t] BY <3>2, <4>5, <1>1 DEF Typed, TypeOK
        <5>2. InFile(t, j) \/ Ahead(t, j) BY <1>1, <5>1 DEF Backed
        <5> QED BY <4>1, <4>2, <5>1, <5>2 DEF InFile, Ahead
      <4> QED BY <4>4, <4>5
    <3> QED BY <2>3, <3>1, <3>2 DEF Create
  <2>4. CASE Write(w)
    <3> DEFINE k == at[w] + 1
               g == Written(file[want[w]], k)
    <3>1. CASE file' = file /\ harmed' = harmed \cup {want[w]}
      BY <1>1, <2>0, <3>1, QuietBacked
    <3>2. CASE /\ file' = [file EXCEPT ![want[w]] = g]
               /\ at' = [at EXCEPT ![w] = k] /\ harmed' = harmed
      <4>1. pc' = pc /\ want' = want /\ pc[w] = "write" /\ file[want[w]] # Absent
        BY <2>0, <2>4 DEF Write, Sound
      <4>2. /\ k \in 1..Blocks /\ at[w] \in Nat
            /\ file[want[w]] \in Contents({"data", "hole"})
        BY <1>1, <2>0, <2>4, <4>1, BlocksNat DEF Write, Typed, TypeOK, Files
      <4>3. /\ g \in Contents({"data", "hole"})
            /\ Len(file[want[w]]) <= Len(g) /\ k <= Len(g) /\ g[k] = "data"
            /\ \A j \in 1..Len(file[want[w]]) : file[want[w]][j] = "data" => g[j] = "data"
        BY <4>2, WrittenBlock
      <4>4. Len(g) \in Nat /\ Len(file[want[w]]) \in Nat
        BY <4>2, <4>3, ContentsSeq, BlocksNat
      <4>5. file'[want[w]] = g /\ \A t \in Thumbs \ {want[w]} : file'[t] = file[t]
        BY <1>1, <2>0, <3>2 DEF Typed, TypeOK
      <4>6. at'[w] = k /\ \A v \in Workers \ {w} : at'[v] = at[v]
        BY <1>1, <3>2 DEF Typed, TypeOK
      <4> HIDE DEF g
      <4> SUFFICES ASSUME NEW t \in Thumbs \ harmed, file'[t] # Absent, NEW j \in 1..Blocks
                   PROVE  InFile(t, j)' \/ Ahead(t, j)'
        BY <3>2 DEF Backed
      <4>7. InFile(t, j) \/ Ahead(t, j)
        <5>1. file[t] # Absent BY <4>1, <4>5
        <5> QED BY <1>1, <5>1 DEF Backed
      <4>8. CASE InFile(t, j)
        <5>1. CASE t = want[w]
          <6>1. j \in 1..Len(g) /\ g[j] = "data" BY <4>3, <4>4, <4>8, <5>1 DEF InFile
          <6> QED BY <4>5, <5>1, <6>1 DEF InFile
        <5>2. CASE t # want[w] BY <4>5, <4>8, <5>2 DEF InFile
        <5> QED BY <5>1, <5>2
      <4>9. ASSUME NEW v \in Writing(t), at[v] < j
            PROVE  InFile(t, j)' \/ Ahead(t, j)'
        <5>1. v \in Writing(t)' /\ v \in Workers BY <4>1, <4>9 DEF Writing
        <5>2. CASE v # w BY <4>6, <4>9, <5>1, <5>2 DEF Ahead
        <5>3. CASE v = w /\ j # k
          <6>1. k < j BY <4>2, <4>9, <5>3, BlocksNat
          <6> QED BY <4>6, <5>1, <5>3, <6>1 DEF Ahead
        <5>4. CASE v = w /\ j = k
          <6>1. t = want[w] BY <4>9, <5>4 DEF Writing
          <6>2. j \in 1..Len(g) /\ g[j] = "data" BY <4>3, <4>4, <5>4
          <6> QED BY <4>5, <6>1, <6>2 DEF InFile
        <5> QED BY <5>2, <5>3, <5>4
      <4> QED BY <4>7, <4>8, <4>9 DEF Ahead
    <3> QED BY <2>4, <3>1, <3>2 DEF Write
  <2>5. CASE Saved(w)
    <3>1. /\ file' = file /\ harmed' = harmed /\ at' = at /\ want' = want
          /\ pc' = [pc EXCEPT ![w] = "answer"] /\ at[w] = Blocks
      BY <2>5 DEF Saved
    <3> SUFFICES ASSUME NEW t \in Thumbs \ harmed, file[t] # Absent, NEW j \in 1..Blocks
                 PROVE  InFile(t, j)' \/ Ahead(t, j)'
      BY <3>1 DEF Backed
    <3>2. InFile(t, j) \/ Ahead(t, j) BY <1>1 DEF Backed
    <3>3. InFile(t, j) => InFile(t, j)' BY <3>1 DEF InFile
    <3>4. ASSUME NEW v \in Writing(t), at[v] < j PROVE Ahead(t, j)'
      <4>1. v # w BY <3>1, <3>4, BlocksNat
      <4>2. v \in Writing(t)' BY <1>1, <3>1, <4>1 DEF Writing, Typed, TypeOK
      <4> QED BY <3>1, <3>4, <4>2 DEF Ahead
    <3> QED BY <3>2, <3>3, <3>4 DEF Ahead
  <2>6. CASE Crash(w)
    <3>1. file' = file /\ harmed \subseteq harmed' BY <2>6 DEF Crash
    <3>2. pc[w] # "write" \/ want[w] \in harmed' BY <2>0, <2>6 DEF Crash
    <3> QED BY <1>1, <2>0, <3>1, <3>2, QuietBacked
  <2> QED BY <1>1, <2>1, <2>2, <2>3, <2>4, <2>5, <2>6 DEF Step
<1>2. Typed /\ Backed /\ UNCHANGED vars => Backed'
  BY DEF vars, Backed, InFile, Ahead, Writing
<1> QED BY <1>1, <1>2 DEF Next

(***************************************************************************)
(* StoreSettles: however many workers write a thumbnail at the same time,  *)
(* it is complete when the last of them has closed it, unless one of them  *)
(* died while it wrote or the disk was full.                               *)
(***************************************************************************)
THEOREM AutoThumbStoreSettles == Spec => []StoreSettles
<1>1. Init => Backed BY DEF Init, Backed
<1>2. Spec => []Backed BY <1>1, BackedStep, AutoThumbTyped, PTL DEF Spec
<1> QED BY <1>2, BackedSettles, AutoThumbTyped, PTL

-----------------------------------------------------------------------------
(***************************************************************************)
(* SettledStays and SettledServed.                                         *)
(***************************************************************************)

\* a step changes the file of no thumbnail but the one its worker makes
LEMMA OnlyMakers ==
    ASSUME Typed, NEW w \in Workers, NEW t \in Thumbs, w \notin Making(t),
           \/ \E u \in Thumbs : Request(w, u)
           \/ RequestRefused(w) \/ Step(w) \/ Crash(w)
    PROVE  file'[t] = file[t]
<1>1. CASE Create(w) \/ Write(w)
  <2>1. want[w] # t BY <1>1 DEF Making, Create, Write
  <2>2. \/ file' = file
        \/ \E g : file' = [file EXCEPT ![want[w]] = g]
    BY <1>1 DEF Create, Write
  <2>3. file \in [Thumbs -> Files] BY DEF Typed, TypeOK
  <2> QED BY <2>1, <2>2, <2>3
<1>2. file' = file \/ Create(w) \/ Write(w)
  BY DEF Request, RequestRefused, Begin, Step, Fetch, FetchSize, FetchRead, FetchInfo,
         FetchOriginal, Convert, Saved, Answer, Crash, Store
<1> QED BY <1>1, <1>2

\* only a worker that has not found the file begins to make it
LEMMA OnlyMissing ==
    ASSUME Typed, NEW w \in Workers, NEW t \in Thumbs, w \notin Making(t), file[t] # Absent,
           \/ \E u \in Thumbs : Request(w, u)
           \/ RequestRefused(w) \/ Step(w) \/ Crash(w)
    PROVE  w \notin Making(t)'
<1> USE DEF Set, Go, Over
<1> DEFINE Work == {"original", "convert", "create", "write"}
<1>1. CASE Fetch(w)
  <2>1. /\ pc'[w] = (IF file[want[w]] # Absent THEN "size" ELSE "original") /\ want' = want
    BY <1>1 DEF Fetch, Found, Typed, TypeOK, local
  <2> QED BY <2>1 DEF Making
<1>2. CASE \/ \E u \in Thumbs : Request(w, u)
           \/ RequestRefused(w) \/ FetchSize(w) \/ FetchInfo(w) \/ Saved(w) \/ Answer(w) \/ Crash(w)
  <2>1. pc'[w] \notin Work
    BY <1>2 DEF Typed, TypeOK, Request, RequestRefused, FetchSize, FetchInfo, Saved, Answer, Crash
  <2> QED BY <2>1 DEF Making
<1>3. CASE FetchRead(w) \/ Write(w)
  <2>1. pc' = pc /\ want' = want BY <1>3 DEF FetchRead, Write
  <2> QED BY <2>1 DEF Making
<1>4. CASE FetchOriginal(w) \/ Convert(w) \/ Create(w)
  <2>1. want' = want /\ pc[w] \in Work
    BY <1>4 DEF FetchOriginal, Convert, Create
  <2> QED BY <2>1 DEF Making
<1> QED BY <1>1, <1>2, <1>3, <1>4 DEF Step

LEMMA SettledStep ==
    ASSUME Typed, [Next]_vars, NEW t \in Thumbs, Settled(t)
    PROVE  Settled(t)'
<1>1. Making(t) = {} /\ file[t] = Complete /\ file[t] # Absent
  BY CompleteFile DEF Settled
<1>2. ASSUME NEW w \in Workers,
             \/ \E u \in Thumbs : Request(w, u)
             \/ RequestRefused(w) \/ Step(w) \/ Crash(w)
      PROVE  Settled(t)'
  <2>1. file'[t] = file[t] BY <1>1, <1>2, OnlyMakers
  <2>2. w \notin Making(t)' BY <1>1, <1>2, OnlyMissing
  <2>3. ASSUME NEW v \in Making(t)' PROVE FALSE
    <3>1. v \in Workers /\ v # w BY <2>2 DEF Making
    <3>2. pc'[v] = pc[v] /\ want'[v] = want[v] BY <1>2, <3>1, StepAlone DEF Alone
    <3>3. v \in Making(t) BY <2>3, <3>2 DEF Making
    <3> QED BY <1>1, <3>3
  <2> QED BY <1>1, <2>1, <2>3 DEF Settled
<1>3. CASE UNCHANGED vars BY <1>3 DEF vars, local, Settled, Making
<1> QED BY <1>2, <1>3 DEF Next

(***************************************************************************)
(* SettledStays: a thumbnail that is complete and that nobody is at making *)
(* stays so, whatever requests come and whichever workers die.             *)
(***************************************************************************)
THEOREM AutoThumbSettledStays == Spec => SettledStays
<1>1. Typed /\ [Next]_vars => [\A t \in Thumbs : Settled(t) => Settled(t)']_vars
  BY SettledStep
<1> QED BY <1>1, AutoThumbTyped, PTL DEF Spec, SettledStays

(***************************************************************************)
(* A worker whose request came for a settled thumbnail finds, measures and *)
(* reads nothing but the complete file.                                    *)
(***************************************************************************)
Served(w) ==
    settled[w] =>
        /\ pc[w] \in {"idle", "fetch", "size", "read", "answer"}
        /\ pc[w] # "idle" => Settled(want[w])
        /\ pc[w] = "read" => size[w] = Blocks /\ \A j \in 1..at[w] : data[w][j] = "data"
        /\ pc[w] = "answer" => data[w] = Complete

LEMMA ServedStep ==
    ASSUME Typed, [Next]_vars, NEW v \in Workers, Served(v)
    PROVE  Served(v)'
<1> USE DEF Set, Go, Over, Store, Asked, local
<1>0. want[v] \in Thumbs /\ Blocks \in Nat BY BlocksNat DEF Typed, TypeOK
<1>1. ASSUME NEW w \in Workers, w # v,
             \/ \E u \in Thumbs : Request(w, u)
             \/ RequestRefused(w) \/ Step(w) \/ Crash(w)
      PROVE  Served(v)'
  <2>1. /\ pc'[v] = pc[v] /\ want'[v] = want[v] /\ at'[v] = at[v]
        /\ size'[v] = size[v] /\ data'[v] = data[v]
    BY <1>1, StepAlone DEF Alone
  <2>2. settled'[v] = settled[v]
    BY <1>1 DEF Typed, TypeOK, Request, RequestRefused, Begin, Step, Fetch, FetchSize, FetchRead,
                FetchInfo, FetchOriginal, Convert, Create, Write, Saved, Answer, Crash
  <2>3. Settled(want[v]) => Settled(want[v])'
    BY <1>0, SettledStep, <2>1 DEF Settled, Making
  <2> QED BY <2>1, <2>2, <2>3 DEF Served
<1>2. ASSUME NEW t \in Thumbs, Request(v, t) PROVE Served(v)'
  <2>1. pc'[v] = "fetch" /\ want'[v] = t /\ settled'[v] = Settled(t)
    BY <1>2 DEF Request, Typed, TypeOK
  <2>2. Settled(t) => Settled(t)' BY SettledStep
  <2> QED BY <2>1, <2>2 DEF Served, Settled, Making
<1>3. CASE RequestRefused(v)
  <2>1. settled'[v] = FALSE BY <1>3 DEF RequestRefused, Typed, TypeOK
  <2> QED BY <2>1 DEF Served
<1>4. CASE Crash(v) \/ Answer(v)
  <2>1. pc'[v] = "idle" BY <1>4 DEF Crash, Answer, Typed, TypeOK
  <2> QED BY <2>1 DEF Served
<1>5. CASE Step(v) /\ settled[v] /\ ~Answer(v)
  <2>1. settled' = settled /\ want' = want /\ pc[v] # "idle"
    BY <1>5 DEF Step, Fetch, FetchSize, FetchRead,
                FetchInfo, FetchOriginal, Convert, Create, Write, Saved
  <2>2. Settled(want[v]) /\ Settled(want[v])'
    <3>1. Settled(want[v]) BY <1>5, <2>1 DEF Served
    <3>2. \A t \in Thumbs : Settled(t) => Settled(t)' BY SettledStep
    <3> QED BY <1>0, <2>1, <3>1, <3>2 DEF Settled, Making
  <2>3. file[want[v]] = Complete BY <2>2 DEF Settled
  <2>4. CASE Fetch(v)
    <3>1. pc'[v] = "size"
      BY <2>3, <2>4, CompleteFile DEF Fetch, Found, Typed, TypeOK
    <3> QED BY <2>2, <3>1 DEF Served
  <2>5. CASE FetchSize(v)
    <3>1. pc'[v] = "read" /\ size'[v] = Blocks /\ at' = at
      BY <2>3, <2>5, CompleteFile DEF FetchSize, FileSize, Typed, TypeOK
    <3>2. at[v] = 0 BY <2>5 DEF FetchSize, Typed, ReadSoFar, Sound
    <3>3. \A j \in 1..at'[v] : FALSE BY <3>1, <3>2
    <3> QED BY <2>2, <3>1, <3>3 DEF Served
  <2>6. CASE FetchRead(v)
    <3>1. pc' = pc /\ size' = size /\ pc[v] = "read" /\ at[v] < size[v] BY <2>6 DEF FetchRead
    <3>2. size[v] = Blocks /\ \A j \in 1..at[v] : data[v][j] = "data"
      BY <1>5, <3>1 DEF Served
    <3>3. at[v] \in Nat /\ Len(data[v]) = at[v] /\ at[v] + 1 \in 1..Blocks
      BY <1>0, <3>1, <3>2 DEF Typed, TypeOK, ReadSoFar, Sound
    <3>4. data[v] \in Seq({"data", "hole", "garbage"})
      <4>1. data[v] \in Contents({"data", "hole", "garbage"}) BY DEF Typed, TypeOK, Bodies
      <4> QED BY <4>1, ContentsSeq
    <3>5. data'[v] = Append(data[v], "data") /\ at'[v] = at[v] + 1
      <4>1. at[v] < Len(Complete) /\ Complete[at[v] + 1] = "data"
        BY <3>1, <3>2, <3>3, CompleteFile DEF Complete
      <4> QED BY <2>3, <2>6, <4>1, ReadBlock
    <3>6. \A j \in 1..(at[v] + 1) : data'[v][j] = "data"
      BY <3>2, <3>3, <3>4, <3>5
    <3> QED BY <2>2, <3>1, <3>2, <3>5, <3>6 DEF Served
  <2>7. CASE FetchInfo(v)
    <3>1. pc'[v] = "answer" /\ data' = data /\ pc[v] = "read" /\ at[v] = size[v]
      BY <2>7 DEF FetchInfo, Typed, TypeOK
    <3>2. \A j \in 1..Blocks : j \in 1..Len(data[v]) /\ data[v][j] = "data"
      BY <1>5, <3>1 DEF Served, Typed, ReadSoFar, Sound
    <3>3. data[v] = Complete
      BY <3>2, AllWritten DEF Typed, TypeOK, Bodies
    <3> QED BY <2>2, <3>1, <3>3 DEF Served
  <2>8. CASE FetchOriginal(v) \/ Convert(v) \/ Create(v) \/ Write(v) \/ Saved(v)
    BY <1>5, <2>8 DEF Served, FetchOriginal, Convert, Create, Write, Saved
  <2> QED BY <1>5, <2>4, <2>5, <2>6, <2>7, <2>8 DEF Step
<1>6. CASE Step(v) /\ ~settled[v]
  <2>1. settled' = settled
    BY <1>6 DEF Step, Fetch, FetchSize, FetchRead,
                FetchInfo, FetchOriginal, Convert, Create, Write, Saved, Answer
  <2> QED BY <1>6, <2>1 DEF Served
<1>7. CASE UNCHANGED vars BY <1>7 DEF vars, Served, Settled, Making
<1> QED BY <1>1, <1>2, <1>3, <1>4, <1>5, <1>6, <1>7 DEF Next

(***************************************************************************)
(* SettledServed: such a request is answered with the whole image.         *)
(***************************************************************************)
THEOREM AutoThumbSettledServed == Spec => []SettledServed
<1> DEFINE AllServed == \A w \in Workers : Served(w)
<1>1. Init => AllServed BY DEF Init, Served
<1>2. Typed /\ AllServed /\ [Next]_vars => AllServed' BY ServedStep
<1>3. AllServed => SettledServed BY DEF Served, SettledServed
<1> HIDE DEF AllServed
<1> QED BY <1>1, <1>2, <1>3, AutoThumbTyped, PTL DEF Spec

-----------------------------------------------------------------------------
(***************************************************************************)
(* MadeOncePerWorker: a worker that is to create the file is one of those  *)
(* that did not find it, and has not created it yet.                       *)
(***************************************************************************)
Coming(t) == {w \in Workers : pc[w] \in {"original", "convert", "create"} /\ want[w] = t}

CreatedOnce(t) ==
    /\ file[t] = Absent => created[t] = 0
    /\ created[t] + Cardinality(Coming(t)) <= Cardinality(Workers)

LEMMA ComingFinite ==
    ASSUME NEW t \in Thumbs
    PROVE  /\ IsFiniteSet(Coming(t)) /\ Cardinality(Coming(t)) \in Nat
           /\ Cardinality(Coming(t)) <= Cardinality(Workers) /\ Cardinality(Workers) \in Nat
BY AutoThumbAssumption, FS_Subset, FS_CardinalityType DEF Coming

LEMMA ComingShrinks ==
    ASSUME NEW t \in Thumbs, Coming(t)' \subseteq Coming(t)
    PROVE  Cardinality(Coming(t)') <= Cardinality(Coming(t)) /\ Cardinality(Coming(t)') \in Nat
BY ComingFinite, FS_Subset, FS_CardinalityType

\* nobody comes but a worker that has not found the file
LEMMA ComingStep ==
    ASSUME Typed, NEW w \in Workers, NEW t \in Thumbs, ~Fetch(w) \/ file[t] # Absent \/ want[w] # t,
           \/ \E u \in Thumbs : Request(w, u)
           \/ RequestRefused(w) \/ Step(w) \/ Crash(w)
    PROVE  Coming(t)' \subseteq Coming(t)
<1> USE DEF Set, Go, Over, local
<1>1. \A v \in Workers \ {w} : pc'[v] = pc[v] /\ want'[v] = want[v]
  BY StepAlone DEF Alone
<1> SUFFICES ASSUME w \in Coming(t)' PROVE w \in Coming(t)
  BY <1>1 DEF Coming
<1>2. pc'[w] \in {"original", "convert", "create"} /\ want'[w] = t BY DEF Coming
<1>3. CASE Fetch(w)
  <2>1. pc'[w] = (IF file[want[w]] # Absent THEN "size" ELSE "original") /\ want' = want
    BY <1>3 DEF Fetch, Found, Typed, TypeOK
  <2> QED BY <1>2, <1>3, <2>1
<1>4. CASE \/ \E u \in Thumbs : Request(w, u)
           \/ RequestRefused(w) \/ FetchSize(w) \/ FetchInfo(w) \/ Saved(w) \/ Answer(w) \/ Crash(w)
  BY <1>2, <1>4 DEF Typed, TypeOK, Request, RequestRefused, FetchSize, FetchInfo, Saved, Answer,
                    Crash
<1>5. CASE FetchRead(w) \/ Write(w) BY <1>2, <1>5 DEF FetchRead, Write, Coming
<1>6. CASE FetchOriginal(w) \/ Convert(w) \/ Create(w)
  BY <1>2, <1>6 DEF FetchOriginal, Convert, Create, Coming
<1> QED BY <1>3, <1>4, <1>5, <1>6 DEF Step

LEMMA CreatedStep ==
    ASSUME Typed, [Next]_vars, NEW t \in Thumbs, CreatedOnce(t)
    PROVE  CreatedOnce(t)'
<1>0. /\ created[t] \in Nat /\ Cardinality(Workers) \in Nat
      /\ IsFiniteSet(Coming(t)) /\ Cardinality(Coming(t)) \in Nat
  BY ComingFinite DEF Typed, TypeOK
<1>1. ASSUME Coming(t)' \subseteq Coming(t), created'[t] = created[t],
             file[t] # Absent => file'[t] # Absent
      PROVE  CreatedOnce(t)'
  <2>1. Cardinality(Coming(t)') <= Cardinality(Coming(t)) /\ Cardinality(Coming(t)') \in Nat
    BY <1>1, ComingShrinks
  <2>2. created[t] + Cardinality(Coming(t)) <= Cardinality(Workers) BY DEF CreatedOnce
  <2>3. created[t] + Cardinality(Coming(t)') <= Cardinality(Workers)
    BY <1>0, <2>1, <2>2
  <2>4. Cardinality(Coming(t))' = Cardinality(Coming(t)') OBVIOUS
  <2>5. file'[t] = Absent => created'[t] = 0 BY <1>1 DEF CreatedOnce
  <2> QED BY <1>1, <2>3, <2>4, <2>5 DEF CreatedOnce
<1>2. ASSUME NEW w \in Workers,
             \/ \E u \in Thumbs : Request(w, u)
             \/ RequestRefused(w) \/ Step(w) \/ Crash(w)
      PROVE  CreatedOnce(t)'
  <2>0. Alone(w) BY <1>2, StepAlone
  <2>1. CASE Fetch(w) /\ file[t] = Absent /\ want[w] = t
    <3>1. file' = file /\ created' = created BY <2>1 DEF Fetch, Store
    <3>2. created[t] = 0 BY <2>1 DEF CreatedOnce
    <3>3. Coming(t)' \subseteq Workers BY DEF Coming
    <3>4. Cardinality(Coming(t)') <= Cardinality(Workers) /\ Cardinality(Coming(t)') \in Nat
      BY <3>3, AutoThumbAssumption, FS_Subset, FS_CardinalityType
    <3> QED BY <1>0, <3>1, <3>2, <3>4 DEF CreatedOnce
  <2>2. CASE ~(Fetch(w) /\ file[t] = Absent /\ want[w] = t) /\ ~Create(w)
    <3>1. Coming(t)' \subseteq Coming(t) BY <1>2, <2>2, ComingStep
    <3>2. created' = created
      BY <1>2, <2>2 DEF Request, RequestRefused, Begin, Step, Fetch, FetchSize, FetchRead,
                FetchInfo, FetchOriginal, Convert, Write, Saved, Answer, Crash, Store
    <3> QED BY <1>1, <2>0, <3>1, <3>2 DEF Alone
  <2>3. CASE Create(w)
    <3>0. ~Fetch(w) BY <2>3 DEF Create, Fetch
    <3>1. Coming(t)' \subseteq Coming(t) BY <1>2, <3>0, ComingStep
    <3>2. CASE created'[t] = created[t] BY <1>1, <2>0, <3>1, <3>2 DEF Alone
    <3>3. CASE created'[t] # created[t]
      <4>1. /\ created' = [created EXCEPT ![want[w]] = @ + 1]
            /\ pc' = [pc EXCEPT ![w] = "write"] /\ want' = want
            /\ file' = [file EXCEPT ![want[w]] = <<>>]
        BY <2>3, <3>3 DEF Create, Over, Go, Set
      <4>2. created \in [Thumbs -> Nat] /\ file \in [Thumbs -> Files] /\ pc'[w] = "write"
        BY <4>1 DEF Typed, TypeOK
      <4>3. t = want[w] /\ created'[t] = created[t] + 1 /\ file'[t] = <<>>
        BY <3>3, <4>1, <4>2
      <4>4. w \in Coming(t) /\ Coming(t)' \subseteq Coming(t) \ {w}
        BY <2>3, <3>1, <4>2, <4>3 DEF Create, Coming
      <4>5. /\ IsFiniteSet(Coming(t) \ {w})
            /\ Cardinality(Coming(t) \ {w}) = Cardinality(Coming(t)) - 1
        BY <1>0, <4>4, FS_RemoveElement
      <4>6. /\ Cardinality(Coming(t)') <= Cardinality(Coming(t)) - 1
            /\ Cardinality(Coming(t)') \in Nat
        BY <4>4, <4>5, FS_Subset, FS_CardinalityType
      <4>7. created[t] + Cardinality(Coming(t)) <= Cardinality(Workers) BY DEF CreatedOnce
      <4>8. created[t] + 1 + Cardinality(Coming(t)') <= Cardinality(Workers)
        BY <1>0, <4>6, <4>7
      <4> QED BY <4>3, <4>8, EmptyFile DEF CreatedOnce
    <3> QED BY <3>2, <3>3
  <2> QED BY <2>1, <2>2, <2>3
<1>3. CASE UNCHANGED vars BY <1>3 DEF vars, local, CreatedOnce, Coming
<1> QED BY <1>2, <1>3 DEF Next

(***************************************************************************)
(* MadeOncePerWorker: the file of a thumbnail is created at most as often  *)
(* as there are workers.                                                   *)
(***************************************************************************)
THEOREM AutoThumbMadeOncePerWorker == Spec => []MadeOncePerWorker
<1> DEFINE AllOnce == \A t \in Thumbs : CreatedOnce(t)
<1>1. Init => AllOnce
  <2> SUFFICES ASSUME Init, NEW t \in Thumbs PROVE CreatedOnce(t)
    OBVIOUS
  <2>1. Coming(t) = {} /\ created[t] = 0 BY DEF Init, Coming
  <2> QED BY <2>1, FS_EmptySet, ComingFinite DEF CreatedOnce
<1>2. Typed /\ AllOnce /\ [Next]_vars => AllOnce' BY CreatedStep
<1>3. Typed /\ AllOnce => MadeOncePerWorker
  <2> SUFFICES ASSUME Typed, AllOnce, NEW t \in Thumbs
               PROVE  created[t] <= Cardinality(Workers)
    BY DEF MadeOncePerWorker
  <2>1. /\ created[t] \in Nat /\ Cardinality(Coming(t)) \in Nat /\ Cardinality(Workers) \in Nat
        /\ created[t] + Cardinality(Coming(t)) <= Cardinality(Workers)
    BY ComingFinite DEF Typed, TypeOK, CreatedOnce
  <2> QED BY <2>1
<1> HIDE DEF AllOnce
<1> QED BY <1>1, <1>2, <1>3, AutoThumbTyped, PTL DEF Spec

(***************************************************************************)
(* What the store holds and what is served from it, together.              *)
(***************************************************************************)
THEOREM AutoThumbStoreServes == Spec => []StoreServes
BY AutoThumbStoreSettles, AutoThumbMadeOncePerWorker, AutoThumbSettledServed, PTL
DEF StoreServes

-----------------------------------------------------------------------------
(***************************************************************************)
(* get_pixels_by_rate(): the least number that is not below a * b / c.     *)
(***************************************************************************)
LEMMA PixelsByRate ==
    ASSUME NEW a \in Nat, NEW b \in Nat, NEW c \in Nat \ {0}, NEW g, g = C!get_pixels_by_rate(a, b, c)
    PROVE  g \in Nat /\ g * c >= a * b /\ (g # 0 => (g - 1) * c < a * b)
<1> DEFINE n == a * b
           q == n \div c
<1>1. n \in Nat OBVIOUS
<1>2. g = IF n % c # 0 THEN q + 1 ELSE q BY DEF C!get_pixels_by_rate
<1> HIDE DEF n
<1>3. q \in Nat BY <1>1
<1>4. n - q * c = n % c BY <1>1, Z3
<1>5. n % c \in Nat /\ n % c < c BY <1>1
<1> HIDE DEF q
<1>6. CASE n % c # 0
    <2>1. g = q + 1 BY <1>2, <1>6
    <2>2. (q + 1) * c = q * c + c BY <1>3
    <2>3. q * c \in Nat BY <1>3
    <2>4. g \in Nat /\ g * c >= n /\ (g - 1) * c < n BY <1>1, <1>3, <1>4, <1>5, <1>6, <2>1, <2>2, <2>3
    <2> QED BY <2>4 DEF n
<1>7. CASE n % c = 0
    <2>1. g = q /\ q * c \in Nat BY <1>2, <1>3, <1>7
    <2>2. (q - 1) * c = q * c - c BY <1>3
    <2>3. g \in Nat /\ g * c >= n /\ (g - 1) * c < n BY <1>1, <1>3, <1>4, <1>7, <2>1, <2>2
    <2> QED BY <2>3 DEF n
<1> QED BY <1>6, <1>7

\* a side that is scaled up to the proportions of the image covers that of the rectangle
LEMMA Covers ==
    ASSUME NEW a \in Nat, NEW b \in Nat, NEW c \in Nat \ {0}, a * c >= b * c
    PROVE  a >= b
<1> SUFFICES ASSUME a < b PROVE FALSE OBVIOUS
<1>1. (b - a) * c >= c BY Z3
<1> QED BY <1>1

(***************************************************************************)
(* get_Crop_offset_and_wh(): whatever is rounded down, the rectangle ends  *)
(* before the side does, unless y is more than 100 per cent.               *)
(***************************************************************************)
LEMMA OffsetInside ==
    ASSUME NEW l \in Nat, NEW cut \in Nat, cut <= l, NEW x \in Nat, NEW y \in Nat, x > 0 \/ y <= 100,
           SizeModulus \in Nat \ {0}
    PROVE  C!Offset(l, cut, x, y) + cut <= l
<1>1. \A n \in Nat : C!Word(n) \in Nat /\ C!Word(n) <= n BY DEF C!Word
<1>2. CASE x = 0 /\ y = 0 BY <1>2 DEF C!Offset
<1>3. CASE x = 0 /\ y # 0
    <2> DEFINE part == C!Word(100 - y)
               n == C!Word(l * part)
               from == n \div 100
    <2>1. part \in Nat /\ part <= 100 BY <1>1, <1>3
    <2> HIDE DEF part
    <2>2. l * part \in Nat /\ l * part <= l * 100 BY <2>1
    <2>3. n \in Nat /\ n <= l * 100 BY <1>1, <2>2
    <2> HIDE DEF n
    <2>4. from \in Nat /\ from <= l BY <2>3
    <2>5. C!Offset(l, cut, x, y) = from - C!Least(from, cut) BY <1>3 DEF C!Offset, n, part
    <2> HIDE DEF from
    <2> QED BY <2>4, <2>5 DEF C!Least
<1>4. CASE x # 0 /\ y = 0
    <2>1. C!Offset(l, cut, x, y) = C!Least((l * x) \div 100, l - cut) BY <1>4 DEF C!Offset
    <2>2. (l * x) \div 100 \in Int
        <3>1. l * x \in Nat OBVIOUS
        <3> QED BY <3>1
    <2> QED BY <2>1, <2>2 DEF C!Least
<1>5. CASE x # 0 /\ y # 0
    <2> DEFINE rest == l - cut
               from == (rest * x) \div (x + y)
    <2>1. rest \in Nat /\ rest + cut = l OBVIOUS
    <2>2. C!Offset(l, cut, x, y) = from BY <1>5 DEF C!Offset
    <2> HIDE DEF rest
    <2>3. from \in Nat /\ from <= rest BY <1>5, <2>1
    <2> HIDE DEF from
    <2> QED BY <2>1, <2>2, <2>3
<1> QED BY <1>2, <1>3, <1>4, <1>5

\* get_Crop_width_height(): the numbers of a format
LEMMA Numbers ==
    ASSUME C!CropAssumption, NEW f \in C!Formats, Len(f) \in 2..4, NEW p, p = C!Parsed(f)
    PROVE  p.cw \in Nat /\ p.ch \in Nat /\ p.x \in Nat /\ p.y \in Nat
<1>1. \A v \in Sides \cup Places : v \in Nat BY DEF C!CropAssumption
<1>2. /\ p.cw = f[1] /\ p.ch = f[2]
      /\ p.x = IF Len(f) > 2 THEN f[3] ELSE 0
      /\ p.y = IF Len(f) > 3 THEN f[4] ELSE 0
    BY DEF C!Parsed
<1>3. f # <<1, 1, 1, 1, 1>> OBVIOUS
<1>4. PICK n \in 1..4 : f \in [1..n -> Sides \cup Places] BY <1>3 DEF C!Formats
<1>5. Len(f) = n /\ DOMAIN f = 1..n BY <1>4
<1>6. \A i \in 1..n : f[i] \in Nat
    <2>1. \A i \in DOMAIN f : f[i] \in IF i <= 2 THEN Sides ELSE Places BY <1>3 DEF C!Formats
    <2> QED BY <1>1, <1>5, <2>1
<1>7. 1 \in 1..n /\ 2 \in 1..n /\ (n > 2 => 3 \in 1..n) /\ (n > 3 => 4 \in 1..n) BY <1>5
<1> QED BY <1>2, <1>5, <1>6, <1>7

-----------------------------------------------------------------------------
Pictured == image \in [width : Nat \ {0}, height : Nat \ {0}]
Formatted == /\ step \in {"parse", "scale", "done"} => format \in C!Formats
             /\ step \in {"scale", "done"} => Len(format) \in 2..4
CropInv == Pictured /\ Formatted /\ C!CutInside /\ C!JustCovers

LEMMA ScaleFits == ASSUME C!CropAssumption, CropInv, C!Scale PROVE CropInv'
<1> DEFINE p == C!Parsed(format)
           W == image.width
           H == image.height
           h == C!get_pixels_by_rate(p.cw, H, W)
           w == C!get_pixels_by_rate(p.ch, W, H)
<1>1. step = "scale" /\ UNCHANGED <<image, format>> /\ step' \in {"failed", "done"}
      /\ (step' = "done" => scaled'.width # 0 /\ scaled'.height # 0)
    BY DEF C!Scale
<1>2. Pictured' /\ Formatted' BY <1>1 DEF CropInv, Pictured, Formatted
<1>3. W \in Nat \ {0} /\ H \in Nat \ {0} BY DEF CropInv, Pictured
<1>4. p.cw \in Nat /\ p.ch \in Nat /\ p.x \in Nat /\ p.y \in Nat BY <1>1, Numbers DEF CropInv, Formatted
<1>5. p' = p /\ (C!Sensible' => p.x > 0 \/ p.y <= 100) BY <1>1 DEF C!Sensible, C!Parsed
<1>6. SizeModulus \in Nat \ {0} BY DEF C!CropAssumption
<1>7. CASE C!Higher(image, p)
    <2>1. scaled' = [width |-> p.cw, height |-> h] /\ offset' = [x |-> 0, y |-> C!Offset(h, p.ch, p.x, p.y)]
        BY <1>7 DEF C!Scale
    <2>2. p.cw * H >= p.ch * W BY <1>7 DEF C!Higher
    <2> HIDE DEF p, W, H
    <2>3. h \in Nat /\ h * W >= p.cw * H /\ (h # 0 => (h - 1) * W < p.cw * H) BY <1>3, <1>4, PixelsByRate
    <2> HIDE DEF h
    <2>4. p.ch <= h
        <3>1. p.cw * H \in Nat /\ p.ch * W \in Nat /\ h * W \in Nat BY <1>3, <1>4, <2>3
        <3>2. h * W >= p.ch * W BY <2>2, <2>3, <3>1
        <3> DEFINE ch == p.ch
        <3>3. ch \in Nat /\ h * W >= ch * W BY <1>4, <3>2
        <3> HIDE DEF ch
        <3>4. h >= ch BY <1>3, <2>3, <3>3, Covers
        <3> QED BY <1>4, <2>3, <3>4 DEF ch
    <2>5. C!Sensible' => C!Offset(h, p.ch, p.x, p.y) + p.ch <= h
        <3> DEFINE ch == p.ch  x == p.x  y == p.y
        <3>1. ch \in Nat /\ x \in Nat /\ y \in Nat /\ ch <= h /\ (C!Sensible' => x > 0 \/ y <= 100) BY <1>4, <1>5, <2>4
        <3> HIDE DEF ch, x, y
        <3>2. C!Sensible' => C!Offset(h, ch, x, y) + ch <= h BY <1>6, <2>3, <3>1, OffsetInside
        <3> QED BY <3>2 DEF ch, x, y
    <2>6. C!CutInside'
        <3> DEFINE place == C!Offset(h, p.ch, p.x, p.y)
        <3>1. offset'.x = 0 /\ offset'.y = place /\ scaled'.width = p.cw /\ scaled'.height = h BY <2>1
        <3>2. C!Sensible' => place + p.ch <= h BY <2>5
        <3> HIDE DEF place
        <3>3. C!Sensible' => offset'.x + p.cw <= scaled'.width /\ offset'.y + p.ch <= scaled'.height
            BY <1>4, <3>1, <3>2
        <3> QED BY <1>5, <3>3 DEF C!CutInside, C!RectangleInside, p
    <2>7. C!JustCovers'
        <3>1. scaled'.width = p.cw /\ scaled'.height = h /\ image'.width = W /\ image'.height = H BY <1>1, <2>1 DEF W, H
        <3>2. step' = "done" =>
                /\ scaled'.width >= p.cw /\ scaled'.height >= p.ch /\ scaled'.width = p.cw
                /\ scaled'.height * image'.width >= p.cw * image'.height
                /\ (scaled'.height - 1) * image'.width < p.cw * image'.height
            BY <1>1, <1>4, <2>3, <2>4, <3>1
        <3> QED BY <1>5, <3>2 DEF C!JustCovers, p
    <2> QED BY <1>2, <2>6, <2>7 DEF CropInv
<1>8. CASE ~C!Higher(image, p)
    <2>1. scaled' = [width |-> w, height |-> p.ch] /\ offset' = [x |-> C!Offset(w, p.cw, p.x, p.y), y |-> 0]
        BY <1>8 DEF C!Scale
    <2>2. p.cw * H < p.ch * W
        <3>1. ~(p.cw * H >= p.ch * W) BY <1>8 DEF C!Higher
        <3> HIDE DEF p, W, H
        <3>2. p.cw * H \in Nat /\ p.ch * W \in Nat BY <1>3, <1>4
        <3> QED BY <3>1, <3>2
    <2> HIDE DEF p, W, H
    <2>3. w \in Nat /\ w * H >= p.ch * W /\ (w # 0 => (w - 1) * H < p.ch * W) BY <1>3, <1>4, PixelsByRate
    <2> HIDE DEF w
    <2>4. p.cw <= w
        <3>1. p.cw * H \in Nat /\ p.ch * W \in Nat /\ w * H \in Nat BY <1>3, <1>4, <2>3
        <3>2. w * H >= p.cw * H BY <2>2, <2>3, <3>1
        <3> DEFINE cw == p.cw
        <3>3. cw \in Nat /\ w * H >= cw * H BY <1>4, <3>2
        <3> HIDE DEF cw
        <3>4. w >= cw BY <1>3, <2>3, <3>3, Covers
        <3> QED BY <1>4, <2>3, <3>4 DEF cw
    <2>5. C!Sensible' => C!Offset(w, p.cw, p.x, p.y) + p.cw <= w
        <3> DEFINE cw == p.cw  x == p.x  y == p.y
        <3>1. cw \in Nat /\ x \in Nat /\ y \in Nat /\ cw <= w /\ (C!Sensible' => x > 0 \/ y <= 100) BY <1>4, <1>5, <2>4
        <3> HIDE DEF cw, x, y
        <3>2. C!Sensible' => C!Offset(w, cw, x, y) + cw <= w BY <1>6, <2>3, <3>1, OffsetInside
        <3> QED BY <3>2 DEF cw, x, y
    <2>6. C!CutInside'
        <3> DEFINE place == C!Offset(w, p.cw, p.x, p.y)
        <3>1. offset'.x = place /\ offset'.y = 0 /\ scaled'.width = w /\ scaled'.height = p.ch BY <2>1
        <3>2. C!Sensible' => place + p.cw <= w BY <2>5
        <3> HIDE DEF place
        <3>3. C!Sensible' => offset'.x + p.cw <= scaled'.width /\ offset'.y + p.ch <= scaled'.height
            BY <1>4, <3>1, <3>2
        <3> QED BY <1>5, <3>3 DEF C!CutInside, C!RectangleInside, p
    <2>7. C!JustCovers'
        <3>1. scaled'.width = w /\ scaled'.height = p.ch /\ image'.width = W /\ image'.height = H BY <1>1, <2>1 DEF W, H
        <3>2. step' = "done" =>
                /\ scaled'.width >= p.cw /\ scaled'.height >= p.ch /\ scaled'.height = p.ch
                /\ scaled'.width * image'.height >= p.ch * image'.width
                /\ (scaled'.width - 1) * image'.height < p.ch * image'.width
            BY <1>1, <1>4, <2>3, <2>4, <3>1
        <3> QED BY <1>5, <3>2 DEF C!JustCovers, p
    <2> QED BY <1>2, <2>6, <2>7 DEF CropInv
<1> QED BY <1>7, <1>8

(***************************************************************************)
(* covert_image(): the scaled image is the smallest that covers the        *)
(* rectangle, whatever the sizes, as long as the products fit into a       *)
(* size_t; and the rectangle lies inside of it if the place is one the     *)
(* arithmetic is made for (Sensible: no more than 100 per cent).           *)
(***************************************************************************)
THEOREM CropRight == ASSUME C!CropAssumption PROVE C!Spec => [](C!CutInside /\ C!JustCovers)
<1>1. C!Init => CropInv
    BY DEF C!Init, CropInv, Pictured, Formatted, C!CutInside, C!JustCovers
<1>2. CropInv /\ [C!Next]_C!vars => CropInv'
    <2> SUFFICES ASSUME CropInv, [C!Next]_C!vars PROVE CropInv' OBVIOUS
    <2>1. CASE UNCHANGED C!vars
        BY <2>1 DEF C!vars, CropInv, Pictured, Formatted, C!CutInside, C!JustCovers, C!Sensible, C!RectangleInside, C!Parsed
    <2>2. CASE C!Begin
        <3>1. Sides \ {0} \subseteq Nat \ {0} BY DEF C!CropAssumption
        <3>2. image' \in [width : Sides \ {0}, height : Sides \ {0}] /\ format' \in C!Formats /\ step' = "parse"
            BY <2>2 DEF C!Begin
        <3> QED BY <3>1, <3>2 DEF CropInv, Pictured, Formatted, C!CutInside, C!JustCovers
    <2>3. CASE C!Parse
        <3>1. step = "parse" /\ step' = (IF Len(format) \in 2..4 THEN "scale" ELSE "failed")
              /\ UNCHANGED <<image, format, scaled, offset>>
            BY <2>3 DEF C!Parse
        <3>2. Pictured' /\ Formatted' BY <3>1 DEF CropInv, Pictured, Formatted
        <3> QED BY <3>1, <3>2 DEF CropInv, C!CutInside, C!JustCovers
    <2>4. CASE C!Scale BY <2>4, ScaleFits
    <2> QED BY <2>1, <2>2, <2>3, <2>4 DEF C!Next
<1>3. CropInv => C!CutInside /\ C!JustCovers BY DEF CropInv
<1> QED BY <1>1, <1>2, <1>3, PTL DEF C!Spec
=============================================================================
