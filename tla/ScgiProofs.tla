----------------------------- MODULE ScgiProofs -----------------------------
(***************************************************************************)
(* Theorems about mod_scgi, for any number of requests, hosts, processes   *)
(* and failures: what its counters of load and of processes that run are   *)
(* worth, and what becomes of its lists when processes are moved in them.  *)
(***************************************************************************)
EXTENDS GatewayProofs

CONSTANTS MaxLoad, SizeModulus

VARIABLE calm                       \* of mod_scgi

S == INSTANCE SCGI

-----------------------------------------------------------------------------
(***************************************************************************)
(* One element of a sequence is moved.                                     *)
(***************************************************************************)
LEMMA SubSeqElements ==
    ASSUME NEW A, NEW s \in Seq(A), NEW m \in 1..(Len(s) + 1), NEW n \in 0..Len(s), m <= n + 1
    PROVE  /\ SubSeq(s, m, n) \in Seq(A) /\ Len(SubSeq(s, m, n)) = n - m + 1
           /\ \A i \in 1..(n - m + 1) : SubSeq(s, m, n)[i] = s[m + i - 1]
OBVIOUS

LEMMA JoinedElements ==
    ASSUME NEW A, NEW s \in Seq(A), NEW t \in Seq(A)
    PROVE  /\ s \o t \in Seq(A) /\ Len(s \o t) = Len(s) + Len(t)
           /\ \A i \in 1..(Len(s) + Len(t)) : (s \o t)[i] = IF i <= Len(s) THEN s[i] ELSE t[i - Len(s)]
OBVIOUS

\* what is before a place, and what is from there on
LEMMA Parts ==
    ASSUME NEW A, NEW s \in Seq(A), NEW k \in 1..(Len(s) + 1)
    PROVE  /\ SubSeq(s, 1, k - 1) \in Seq(A) /\ Len(SubSeq(s, 1, k - 1)) = k - 1
           /\ \A i \in 1..(k - 1) : SubSeq(s, 1, k - 1)[i] = s[i]
           /\ SubSeq(s, k, Len(s)) \in Seq(A) /\ Len(SubSeq(s, k, Len(s))) = Len(s) - k + 1
           /\ \A i \in 1..(Len(s) - k + 1) : SubSeq(s, k, Len(s))[i] = s[k + i - 1]
<1>1. Len(s) \in Nat OBVIOUS
<1>2. 1 \in 1..(Len(s) + 1) /\ k - 1 \in 0..Len(s) /\ 1 <= k - 1 + 1 BY <1>1
<1>3. /\ SubSeq(s, 1, k - 1) \in Seq(A) /\ Len(SubSeq(s, 1, k - 1)) = k - 1 - 1 + 1
      /\ \A i \in 1..(k - 1 - 1 + 1) : SubSeq(s, 1, k - 1)[i] = s[1 + i - 1]
  BY <1>2, SubSeqElements
<1>4. k - 1 - 1 + 1 = k - 1 /\ \A i \in 1..(k - 1) : 1 + i - 1 = i OBVIOUS
<1>5. Len(s) \in 0..Len(s) /\ k <= Len(s) + 1 BY <1>1
<1>6. /\ SubSeq(s, k, Len(s)) \in Seq(A) /\ Len(SubSeq(s, k, Len(s))) = Len(s) - k + 1
      /\ \A i \in 1..(Len(s) - k + 1) : SubSeq(s, k, Len(s))[i] = s[k + i - 1]
  BY <1>5, SubSeqElements
<1> QED BY <1>3, <1>4, <1>6

LEMMA CutElements ==
    ASSUME NEW A, NEW s \in Seq(A), NEW k \in 1..Len(s)
    PROVE  /\ S!Cut(s, k) \in Seq(A) /\ Len(S!Cut(s, k)) = Len(s) - 1
           /\ \A i \in 1..(Len(s) - 1) : S!Cut(s, k)[i] = IF i < k THEN s[i] ELSE s[i + 1]
<1> DEFINE a == SubSeq(s, 1, k - 1)
           b == SubSeq(s, k + 1, Len(s))
<1>1. Len(s) \in Nat OBVIOUS
<1>2. k \in 1..(Len(s) + 1) /\ k + 1 \in 1..(Len(s) + 1) BY <1>1
<1>3. a \in Seq(A) /\ Len(a) = k - 1 /\ \A i \in 1..(k - 1) : a[i] = s[i] BY <1>2, Parts
<1>4. b \in Seq(A) /\ Len(b) = Len(s) - k /\ \A i \in 1..(Len(s) - k) : b[i] = s[k + i]
  <2>1. /\ b \in Seq(A) /\ Len(b) = Len(s) - (k + 1) + 1
        /\ \A i \in 1..(Len(s) - (k + 1) + 1) : b[i] = s[k + 1 + i - 1]
    BY <1>2, Parts
  <2>2. Len(s) - (k + 1) + 1 = Len(s) - k BY <1>1
  <2>3. \A i \in 1..(Len(s) - k) : k + 1 + i - 1 = k + i BY <1>1
  <2> QED BY <2>1, <2>2, <2>3
<1>5. S!Cut(s, k) = a \o b BY DEF S!Cut
<1> HIDE DEF a, b
<1>6. a \o b \in Seq(A) /\ Len(a \o b) = Len(a) + Len(b)
      /\ \A i \in 1..(Len(a) + Len(b)) : (a \o b)[i] = IF i <= Len(a) THEN a[i] ELSE b[i - Len(a)]
  BY <1>3, <1>4, JoinedElements
<1>7. Len(a) + Len(b) = Len(s) - 1 BY <1>1, <1>3, <1>4
<1>8. ASSUME NEW i \in 1..(Len(s) - 1) PROVE S!Cut(s, k)[i] = IF i < k THEN s[i] ELSE s[i + 1]
  <2>1. S!Cut(s, k)[i] = IF i <= k - 1 THEN a[i] ELSE b[i - (k - 1)] BY <1>3, <1>5, <1>6, <1>7
  <2>2. CASE i < k BY <1>3, <2>1, <2>2
  <2>3. CASE ~(i < k)
    <3>1. i - (k - 1) \in 1..(Len(s) - k) /\ k + (i - (k - 1)) = i + 1 BY <1>1, <2>3
    <3>2. ~(i <= k - 1) BY <2>3
    <3>3. b[i - (k - 1)] = s[i + 1] BY <1>4, <3>1
    <3> QED BY <2>1, <2>3, <3>2, <3>3
  <2> QED BY <2>2, <2>3
<1> QED BY <1>5, <1>6, <1>7, <1>8

LEMMA PutElements ==
    ASSUME NEW A, NEW s \in Seq(A), NEW k \in 1..(Len(s) + 1), NEW p \in A
    PROVE  /\ S!Put(s, k, p) \in Seq(A) /\ Len(S!Put(s, k, p)) = Len(s) + 1
           /\ \A i \in 1..(Len(s) + 1) :
                 S!Put(s, k, p)[i] = IF i < k THEN s[i] ELSE IF i = k THEN p ELSE s[i - 1]
<1> DEFINE a == SubSeq(s, 1, k - 1)
           b == SubSeq(s, k, Len(s))
           c == a \o <<p>>
<1>1. Len(s) \in Nat OBVIOUS
<1>2. a \in Seq(A) /\ Len(a) = k - 1 /\ \A i \in 1..(k - 1) : a[i] = s[i] BY Parts
<1>3. b \in Seq(A) /\ Len(b) = Len(s) - k + 1 /\ \A i \in 1..(Len(s) - k + 1) : b[i] = s[k + i - 1]
  BY Parts
<1>4. S!Put(s, k, p) = c \o b BY DEF S!Put
<1>5. <<p>> \in Seq(A) /\ Len(<<p>>) = 1 /\ <<p>>[1] = p OBVIOUS
<1> HIDE DEF a, b
<1>6. c \in Seq(A) /\ Len(c) = k /\ \A i \in 1..k : c[i] = IF i < k THEN s[i] ELSE p
  <2>1. c \in Seq(A) /\ Len(c) = Len(a) + Len(<<p>>)
        /\ \A i \in 1..(Len(a) + Len(<<p>>)) : c[i] = IF i <= Len(a) THEN a[i] ELSE <<p>>[i - Len(a)]
    BY <1>2, <1>5, JoinedElements
  <2>2. Len(a) + Len(<<p>>) = k BY <1>2, <1>5
  <2> HIDE DEF c
  <2>3. ASSUME NEW i \in 1..k PROVE c[i] = IF i < k THEN s[i] ELSE p
    <3>1. CASE i < k
      <4>1. i <= Len(a) /\ i \in 1..(k - 1) BY <1>2, <3>1
      <4> QED BY <1>2, <2>1, <2>2, <3>1, <4>1
    <3>2. CASE ~(i < k)
      <4>1. i = k /\ ~(i <= Len(a)) /\ i - Len(a) = 1 BY <1>2, <3>2
      <4>2. c[i] = <<p>>[i - Len(a)] BY <2>1, <2>2, <4>1
      <4> QED BY <1>5, <3>2, <4>1, <4>2
    <3> QED BY <3>1, <3>2
  <2> QED BY <2>1, <2>2, <2>3
<1> HIDE DEF c
<1>7. c \o b \in Seq(A) /\ Len(c \o b) = Len(c) + Len(b)
      /\ \A i \in 1..(Len(c) + Len(b)) : (c \o b)[i] = IF i <= Len(c) THEN c[i] ELSE b[i - Len(c)]
  BY <1>3, <1>6, JoinedElements
<1>8. Len(c) + Len(b) = Len(s) + 1 BY <1>1, <1>3, <1>6
<1>9. ASSUME NEW i \in 1..(Len(s) + 1)
      PROVE  S!Put(s, k, p)[i] = IF i < k THEN s[i] ELSE IF i = k THEN p ELSE s[i - 1]
  <2>1. S!Put(s, k, p)[i] = IF i <= k THEN c[i] ELSE b[i - k] BY <1>4, <1>6, <1>7, <1>8
  <2>2. CASE i <= k
    <3>1. i \in 1..k BY <2>2
    <3>2. c[i] = IF i < k THEN s[i] ELSE p BY <1>6, <3>1
    <3> QED BY <2>1, <2>2, <3>2
  <2>3. CASE ~(i <= k)
    <3>1. i - k \in 1..(Len(s) - k + 1) /\ k + (i - k) - 1 = i - 1 /\ ~(i < k) /\ i # k BY <1>1, <2>3
    <3>2. b[i - k] = s[i - 1] BY <1>3, <3>1
    <3> QED BY <2>1, <2>3, <3>1, <3>2
  <2> QED BY <2>2, <2>3
<1> QED BY <1>4, <1>7, <1>8, <1>9

\* The element at place k has place "to" in the end, those between make room.
From(k, to, i) ==
    IF i = to THEN k
    ELSE IF to <= k THEN (IF i > to /\ i <= k THEN i - 1 ELSE i)
    ELSE (IF i >= k /\ i < to THEN i + 1 ELSE i)
Moved(s, k, to) == S!Put(S!Cut(s, k), to, s[k])
Comes(A, s, k, to) ==
    /\ Moved(s, k, to) \in Seq(A) /\ Len(Moved(s, k, to)) = Len(s)
    /\ \A i \in 1..Len(s) : From(k, to, i) \in 1..Len(s) /\ Moved(s, k, to)[i] = s[From(k, to, i)]
LEMMA MovedElements ==
    ASSUME NEW A, NEW s \in Seq(A), NEW k \in 1..Len(s), NEW to \in 1..Len(s)
    PROVE  Comes(A, s, k, to)
<1> DEFINE u == S!Cut(s, k)
           t == S!Put(u, to, s[k])
<1>1. Len(s) \in Nat /\ s[k] \in A OBVIOUS
<1>2. u \in Seq(A) /\ Len(u) = Len(s) - 1
      /\ \A i \in 1..(Len(s) - 1) : u[i] = IF i < k THEN s[i] ELSE s[i + 1]
  BY CutElements
<1> HIDE DEF u
<1>3. to \in 1..(Len(u) + 1) /\ Len(u) + 1 = Len(s) BY <1>1, <1>2
<1>4. t \in Seq(A) /\ Len(t) = Len(u) + 1
      /\ \A i \in 1..(Len(u) + 1) : t[i] = IF i < to THEN u[i] ELSE IF i = to THEN s[k] ELSE u[i - 1]
  <2>1. ASSUME NEW v \in Seq(A), NEW m \in 1..(Len(v) + 1), NEW p \in A
        PROVE  /\ S!Put(v, m, p) \in Seq(A) /\ Len(S!Put(v, m, p)) = Len(v) + 1
               /\ \A i \in 1..(Len(v) + 1) :
                     S!Put(v, m, p)[i] = IF i < m THEN v[i] ELSE IF i = m THEN p ELSE v[i - 1]
    BY PutElements
  <2>2. u \in Seq(A) /\ to \in 1..(Len(u) + 1) /\ s[k] \in A BY <1>1, <1>2, <1>3
  <2> QED BY ZenonT(60), <2>1, <2>2
<1> HIDE DEF t
<1>5. ASSUME NEW i \in 1..Len(s) PROVE From(k, to, i) \in 1..Len(s) /\ t[i] = s[From(k, to, i)]
  <2>1. From(k, to, i) \in 1..Len(s) BY <1>1 DEF From
  <2>2. t[i] = IF i < to THEN u[i] ELSE IF i = to THEN s[k] ELSE u[i - 1] BY <1>3, <1>4
  <2>3. CASE i = to BY <2>1, <2>2, <2>3 DEF From
  <2>4. CASE i < to
    <3>1. i \in 1..(Len(s) - 1) BY <1>1, <2>4
    <3>2. t[i] = IF i < k THEN s[i] ELSE s[i + 1] BY <1>2, <2>2, <2>4, <3>1
    <3>3. CASE i < k
      <4>1. From(k, to, i) = i BY <2>4, <3>3 DEF From
      <4> QED BY <2>1, <3>2, <3>3, <4>1
    <3>4. CASE ~(i < k)
      <4>1. From(k, to, i) = i + 1 BY <2>4, <3>4 DEF From
      <4> QED BY <2>1, <3>2, <3>4, <4>1
    <3> QED BY <3>3, <3>4
  <2>5. CASE i > to
    <3>1. i - 1 \in 1..(Len(s) - 1) /\ ~(i < to) /\ i # to /\ i - 1 + 1 = i BY <1>1, <2>5
    <3>2. t[i] = IF i - 1 < k THEN s[i - 1] ELSE s[i] BY <1>2, <2>2, <3>1
    <3>3. CASE i - 1 < k
      <4>1. From(k, to, i) = i - 1 BY <2>5, <3>3 DEF From
      <4> QED BY <2>1, <3>2, <3>3, <4>1
    <3>4. CASE ~(i - 1 < k)
      <4>1. From(k, to, i) = i BY <2>5, <3>4 DEF From
      <4> QED BY <2>1, <3>2, <3>4, <4>1
    <3> QED BY <3>3, <3>4
  <2> QED BY <2>3, <2>4, <2>5
<1> QED BY <1>3, <1>4, <1>5 DEF Comes, Moved, t, u

-----------------------------------------------------------------------------
(***************************************************************************)
(* A list that holds each process once, and holds it still after a move;   *)
(* and when the move has put it in order.                                  *)
(***************************************************************************)
Lists(A, s) ==
    /\ \A p \in A : \E k \in 1..Len(s) : s[k] = p
    /\ \A j, k \in 1..Len(s) : s[j] = s[k] => j = k

LEMMA MovedLists ==
    ASSUME NEW A, NEW s \in Seq(A), Lists(A, s), NEW k \in 1..Len(s), NEW to \in 1..Len(s)
    PROVE  Moved(s, k, to) \in Seq(A) /\ Lists(A, Moved(s, k, to))
<1> DEFINE t == Moved(s, k, to)
<1>1. t \in Seq(A) /\ Len(t) = Len(s)
      /\ \A i \in 1..Len(s) : From(k, to, i) \in 1..Len(s) /\ t[i] = s[From(k, to, i)]
  <2>1. Comes(A, s, k, to) BY MovedElements
  <2> QED BY <2>1 DEF Comes
<1>2. \A i, j \in 1..Len(s) : From(k, to, i) = From(k, to, j) => i = j BY DEF From
<1>3. \A j \in 1..Len(s) : \E i \in 1..Len(s) : From(k, to, i) = j
  <2> TAKE j \in 1..Len(s)
  <2>1. CASE j = k BY <2>1 DEF From
  <2>2. CASE j # k
    <3>1. CASE to <= k
      <4>1. CASE j >= to /\ j < k
        <5>1. j + 1 \in 1..Len(s) /\ From(k, to, j + 1) = j BY <2>2, <3>1, <4>1 DEF From
        <5> QED BY <5>1
      <4>2. CASE ~(j >= to /\ j < k)
        <5>1. From(k, to, j) = j BY <2>2, <3>1, <4>2 DEF From
        <5> QED BY <5>1
      <4> QED BY <4>1, <4>2
    <3>2. CASE ~(to <= k)
      <4>1. CASE j > k /\ j <= to
        <5>1. j - 1 \in 1..Len(s) /\ From(k, to, j - 1) = j BY <2>2, <3>2, <4>1 DEF From
        <5> QED BY <5>1
      <4>2. CASE ~(j > k /\ j <= to)
        <5>1. From(k, to, j) = j BY <2>2, <3>2, <4>2 DEF From
        <5> QED BY <5>1
      <4> QED BY <4>1, <4>2
    <3> QED BY <3>1, <3>2
  <2> QED BY <2>1, <2>2
<1> HIDE DEF t
<1>4. ASSUME NEW p \in A PROVE \E i \in 1..Len(t) : t[i] = p
  <2>1. PICK j \in 1..Len(s) : s[j] = p BY DEF Lists
  <2>2. PICK i \in 1..Len(s) : From(k, to, i) = j BY <1>3
  <2> QED BY <1>1, <2>1, <2>2
<1>5. ASSUME NEW i \in 1..Len(t), NEW j \in 1..Len(t), t[i] = t[j] PROVE i = j
  <2>1. s[From(k, to, i)] = s[From(k, to, j)] BY <1>1, <1>5
  <2>2. From(k, to, i) = From(k, to, j) BY <1>1, <2>1 DEF Lists
  <2> QED BY <1>1, <1>2, <2>2
<1> QED BY <1>1, <1>4, <1>5 DEF Lists, t

\* in order; in order but for p, whose load has gone down; or up
InOrder(s, load) == \A i, j \in 1..Len(s) : i < j => load[s[i]] <= load[s[j]]
Falls(s, load, p) == \A i, j \in 1..Len(s) : i < j /\ s[j] # p => load[s[i]] <= load[s[j]]
Rises(s, load, p) == \A i, j \in 1..Len(s) : i < j /\ s[i] # p => load[s[i]] <= load[s[j]]

LEMMA MovedDown ==
    ASSUME NEW A, NEW s \in Seq(A), Lists(A, s), NEW load \in [A -> Int], NEW k \in 1..Len(s),
           NEW to \in 1..k, to = k \/ load[s[to]] >= load[s[k]],
           \A m \in 1..(to - 1) : load[s[m]] < load[s[k]],
           Falls(s, load, s[k])
    PROVE  InOrder(Moved(s, k, to), load)
<1>0. Len(s) \in Nat /\ to \in 1..Len(s) /\ to <= k OBVIOUS
<1>1. Len(Moved(s, k, to)) = Len(s)
      /\ \A i \in 1..Len(s) : From(k, to, i) \in 1..Len(s) /\ Moved(s, k, to)[i] = s[From(k, to, i)]
  <2>1. s \in Seq(A) /\ k \in 1..Len(s) /\ to \in 1..Len(s) BY <1>0
  <2>2. Comes(A, s, k, to) BY ONLY <2>1, MovedElements
  <2> QED BY <2>2 DEF Comes
<1>2. \A i \in 1..Len(s) : load[s[i]] \in Int
  <2>1. \A i \in 1..Len(s) : s[i] \in A OBVIOUS
  <2> QED BY <2>1
<1>3. \A i \in 1..Len(s) : s[i] = s[k] => i = k BY DEF Lists
<1>8. ASSUME \A i, j \in 1..Len(s) : i < j => load[s[From(k, to, i)]] <= load[s[From(k, to, j)]]
      PROVE  InOrder(Moved(s, k, to), load)
  <2> SUFFICES ASSUME NEW i \in 1..Len(s), NEW j \in 1..Len(s), i < j
               PROVE  load[Moved(s, k, to)[i]] <= load[Moved(s, k, to)[j]]
    BY <1>1 DEF InOrder
  <2> QED BY <1>1, <1>8
<1> SUFFICES ASSUME NEW i \in 1..Len(s), NEW j \in 1..Len(s), i < j
             PROVE  load[s[From(k, to, i)]] <= load[s[From(k, to, j)]]
  BY <1>8
<1>4. CASE i = to
  <2>1. From(k, to, i) = k BY <1>4 DEF From
  <2>2. CASE j <= k
    <3>1. From(k, to, j) = j - 1 /\ j - 1 \in 1..Len(s) /\ to <= j - 1 /\ j - 1 # k /\ to # k
      BY <1>0, <1>4, <2>2 DEF From
    <3>2. load[s[to]] >= load[s[k]] BY <3>1
    <3>3. to = j - 1 \/ load[s[to]] <= load[s[j - 1]]
      <4>1. s[j - 1] # s[k] BY <1>3, <3>1
      <4> QED BY <1>0, <3>1, <4>1 DEF Falls
    <3> QED BY ONLY <1>0, <1>2, <2>1, <3>1, <3>2, <3>3
  <2>3. CASE ~(j <= k)
    <3>1. From(k, to, j) = j /\ k < j BY <1>0, <1>4, <2>3 DEF From
    <3>2. s[j] # s[k] BY <1>3, <3>1
    <3> QED BY <2>1, <3>1, <3>2 DEF Falls
  <2> QED BY <2>2, <2>3
<1>5. CASE j = to
  <2>1. From(k, to, i) = i /\ From(k, to, j) = k /\ i \in 1..(to - 1) BY <1>0, <1>5 DEF From
  <2>2. load[s[i]] < load[s[k]] BY <2>1
  <2> QED BY <1>2, <2>1, <2>2
<1>6. CASE i # to /\ j # to
  <2>1. From(k, to, i) < From(k, to, j) /\ From(k, to, j) # k BY <1>0, <1>6 DEF From
  <2>2. s[From(k, to, j)] # s[k] BY <1>1, <1>3, <2>1
  <2> QED BY <1>1, <2>1, <2>2 DEF Falls
<1> QED BY <1>4, <1>5, <1>6

LEMMA MovedUp ==
    ASSUME NEW A, NEW s \in Seq(A), Lists(A, s), NEW load \in [A -> Int], NEW k \in 1..Len(s),
           NEW to \in k..Len(s), \A m \in (k + 1)..to : load[s[m]] < load[s[k]],
           to = Len(s) \/ load[s[to + 1]] >= load[s[k]],
           Rises(s, load, s[k])
    PROVE  InOrder(Moved(s, k, to), load)
<1>0. Len(s) \in Nat /\ to \in 1..Len(s) /\ k <= to OBVIOUS
<1>1. Len(Moved(s, k, to)) = Len(s)
      /\ \A i \in 1..Len(s) : From(k, to, i) \in 1..Len(s) /\ Moved(s, k, to)[i] = s[From(k, to, i)]
  <2>1. s \in Seq(A) /\ k \in 1..Len(s) /\ to \in 1..Len(s) BY <1>0
  <2>2. Comes(A, s, k, to) BY ONLY <2>1, MovedElements
  <2> QED BY <2>2 DEF Comes
<1>2. \A i \in 1..Len(s) : load[s[i]] \in Int
  <2>1. \A i \in 1..Len(s) : s[i] \in A OBVIOUS
  <2> QED BY <2>1
<1>3. \A i \in 1..Len(s) : s[i] = s[k] => i = k BY DEF Lists
<1>8. ASSUME \A i, j \in 1..Len(s) : i < j => load[s[From(k, to, i)]] <= load[s[From(k, to, j)]]
      PROVE  InOrder(Moved(s, k, to), load)
  <2> SUFFICES ASSUME NEW i \in 1..Len(s), NEW j \in 1..Len(s), i < j
               PROVE  load[Moved(s, k, to)[i]] <= load[Moved(s, k, to)[j]]
    BY <1>1 DEF InOrder
  <2> QED BY <1>1, <1>8
<1> SUFFICES ASSUME NEW i \in 1..Len(s), NEW j \in 1..Len(s), i < j
             PROVE  load[s[From(k, to, i)]] <= load[s[From(k, to, j)]]
  BY <1>8
<1>4. CASE i = to
  <2>1. From(k, to, i) = k /\ From(k, to, j) = j /\ to + 1 \in 1..Len(s) /\ to + 1 # k /\ to # Len(s)
    BY <1>0, <1>4 DEF From
  <2>2. load[s[to + 1]] >= load[s[k]] BY <2>1
  <2>3. to + 1 = j \/ load[s[to + 1]] <= load[s[j]]
    <3>1. s[to + 1] # s[k] BY <1>3, <2>1
    <3>2. to + 1 = j \/ to + 1 < j BY <1>0, <1>4
    <3> QED BY <2>1, <3>1, <3>2 DEF Rises
  <2> QED BY <1>2, <2>1, <2>2, <2>3
<1>5. CASE j = to
  <2>1. From(k, to, j) = k BY <1>5 DEF From
  <2>2. CASE i >= k
    <3>1. From(k, to, i) = i + 1 /\ i + 1 \in (k + 1)..to BY <1>0, <1>5, <2>2 DEF From
    <3>2. load[s[i + 1]] < load[s[k]] BY <3>1
    <3>3. i + 1 \in 1..Len(s) BY <1>0, <3>1
    <3> QED BY ONLY <1>2, <2>1, <3>1, <3>2, <3>3
  <2>3. CASE ~(i >= k)
    <3>1. From(k, to, i) = i /\ i < k BY <1>0, <1>5, <2>3 DEF From
    <3>2. s[i] # s[k] BY <1>3, <3>1
    <3> QED BY <2>1, <3>1, <3>2 DEF Rises
  <2> QED BY <2>2, <2>3
<1>6. CASE i # to /\ j # to
  <2>1. From(k, to, i) < From(k, to, j) /\ From(k, to, i) # k BY <1>0, <1>6 DEF From
  <2>2. s[From(k, to, i)] # s[k] BY <1>1, <1>3, <2>1
  <2> QED BY <1>1, <2>1, <2>2 DEF Rises
<1> QED BY <1>4, <1>5, <1>6

-----------------------------------------------------------------------------
(***************************************************************************)
(* The hosts.  A process that is DIED has no child left, and one that is   *)
(* not ours has none and is not asked whether it lives; no process ever    *)
(* has two.                                                                *)
(***************************************************************************)
ScgiProcs == {q \in [state : {"RUNNING", "DISABLED", "DIED_WAIT_FOR_PID", "DIED"},
                     load : 0..(SizeModulus - 1), is_local : BOOLEAN, child : {"none", "alive", "zombie"}] :
    /\ q.state = "DIED" => q.child = "none"
    /\ ~q.is_local => q.child = "none" /\ q.state \in {"RUNNING", "DISABLED"}}
ProcOf(state, load, is_local, child) ==
    [state |-> state, load |-> load, is_local |-> is_local, child |-> child]
HostOf(l, a, s, f) == [load |-> l, active_procs |-> a, first |-> s, procs |-> f]

Runs(f) == {p \in DOMAIN f : f[p].state = "RUNNING"}
ScgiHost(h) == {x \in [load : Int, active_procs : Int, first : Seq(S!Procs(h)),
                       procs : [S!Procs(h) -> ScgiProcs]] :
    Lists(S!Procs(h), x.first) /\ x.active_procs >= Cardinality(Runs(x.procs))}
ScgiHosts == {hs \in [S!Hosts -> UNION {ScgiHost(h) : h \in S!Hosts}] :
    \A h \in S!Hosts : hs[h] \in ScgiHost(h)}
With(hs, h, l, a, s, f) == [hs EXCEPT ![h] = HostOf(l, a, s, f)]

LEMMA ScgiFinite ==
    ASSUME S!SCGIAssumption
    PROVE  /\ IsFiniteSet(Requests) /\ NHosts \in Nat \ {0} /\ NProcs \in Nat \ {0}
           /\ SizeModulus \in Nat \ {0} /\ Cardinality(Requests) < SizeModulus
           /\ MaxReconnects \in Nat /\ MaxFaults \in Nat
           /\ \A h \in S!Hosts : /\ IsFiniteSet(S!Procs(h)) /\ S!Procs(h) \subseteq 1..NProcs
                                 /\ h # S!None
<1>1. NHosts \in Nat \ {0} /\ NProcs \in Nat \ {0} /\ SizeModulus \in Nat
      /\ MaxReconnects \in Nat /\ MaxFaults \in Nat
  BY DEF S!SCGIAssumption
<1>2. IsFiniteSet(Requests) /\ Cardinality(Requests) < SizeModulus
  BY DEF S!SCGIAssumption, S!IsFiniteSet, S!Cardinality, IsFiniteSet, Cardinality
<1>3. Cardinality(Requests) \in Nat BY <1>2, FS_CardinalityType
<1>4. \A h : IsFiniteSet(S!Procs(h)) /\ S!Procs(h) \subseteq 1..NProcs
  <2>1. IsFiniteSet({1}) BY FS_Singleton
  <2>2. {1} \subseteq 1..NProcs /\ IsFiniteSet(1..NProcs) BY <1>1, FS_Interval
  <2> QED BY <2>1, <2>2 DEF S!Procs
<1> QED BY <1>1, <1>2, <1>3, <1>4 DEF S!Hosts, S!None

LEMMA ScgiReads ==
    ASSUME NEW hs \in ScgiHosts, NEW h \in S!Hosts
    PROVE  /\ hs \in [S!Hosts -> UNION {ScgiHost(g) : g \in S!Hosts}]
           /\ hs[h].load \in Int /\ hs[h].active_procs \in Int
           /\ hs[h].first \in Seq(S!Procs(h)) /\ Lists(S!Procs(h), hs[h].first)
           /\ hs[h].procs \in [S!Procs(h) -> ScgiProcs]
           /\ hs[h].active_procs >= Cardinality(Runs(hs[h].procs))
           /\ hs[h] = HostOf(hs[h].load, hs[h].active_procs, hs[h].first, hs[h].procs)
<1>1. hs \in [S!Hosts -> UNION {ScgiHost(g) : g \in S!Hosts}] /\ hs[h] \in ScgiHost(h) BY DEF ScgiHosts
<1>2. hs[h] \in [load : Int, active_procs : Int, first : Seq(S!Procs(h)), procs : [S!Procs(h) -> ScgiProcs]]
      /\ Lists(S!Procs(h), hs[h].first) /\ hs[h].active_procs >= Cardinality(Runs(hs[h].procs))
  BY <1>1 DEF ScgiHost
<1>3. hs[h] = HostOf(hs[h].load, hs[h].active_procs, hs[h].first, hs[h].procs) BY <1>2 DEF HostOf
<1> QED BY <1>1, <1>2, <1>3

LEMMA ScgiProcReads ==
    ASSUME NEW hs \in ScgiHosts, NEW h \in S!Hosts, NEW p \in S!Procs(h)
    PROVE  LET q == hs[h].procs[p] IN
           /\ q \in ScgiProcs /\ q.load \in 0..(SizeModulus - 1) /\ q.is_local \in BOOLEAN
           /\ q.state \in {"RUNNING", "DISABLED", "DIED_WAIT_FOR_PID", "DIED"}
           /\ q.child \in {"none", "alive", "zombie"}
           /\ q.state = "DIED" => q.child = "none"
           /\ ~q.is_local => q.child = "none" /\ q.state \in {"RUNNING", "DISABLED"}
           /\ q = ProcOf(q.state, q.load, q.is_local, q.child)
<1>1. hs[h].procs[p] \in ScgiProcs BY ScgiReads
<1> DEFINE q == hs[h].procs[p]
<1> HIDE DEF q
<1>2. q \in ScgiProcs BY <1>1 DEF q
<1> QED BY <1>2 DEF ScgiProcs, ProcOf, q

LEMMA ScgiWith ==
    ASSUME NEW hs \in ScgiHosts, NEW h \in S!Hosts, NEW l \in Int, NEW a \in Int,
           NEW s \in Seq(S!Procs(h)), Lists(S!Procs(h), s),
           NEW f \in [S!Procs(h) -> ScgiProcs], a >= Cardinality(Runs(f))
    PROVE  LET n == With(hs, h, l, a, s, f) IN
           /\ n \in ScgiHosts /\ \A g \in S!Hosts \ {h} : n[g] = hs[g]
           /\ n[h] = HostOf(l, a, s, f)
           /\ n[h].load = l /\ n[h].active_procs = a /\ n[h].first = s /\ n[h].procs = f
<1> DEFINE x == HostOf(l, a, s, f)
<1>1. x.load = l /\ x.active_procs = a /\ x.first = s /\ x.procs = f BY DEF HostOf
<1>2. x \in ScgiHost(h)
  <2>1. x \in [load : Int, active_procs : Int, first : Seq(S!Procs(h)), procs : [S!Procs(h) -> ScgiProcs]]
    BY DEF HostOf
  <2> HIDE DEF x
  <2> QED BY <1>1, <2>1 DEF ScgiHost
<1> HIDE DEF x
<1>3. hs \in [S!Hosts -> UNION {ScgiHost(g) : g \in S!Hosts}] BY ScgiReads
<1>4. With(hs, h, l, a, s, f) = [hs EXCEPT ![h] = x] BY DEF With, x
<1>5. [hs EXCEPT ![h] = x] \in [S!Hosts -> UNION {ScgiHost(g) : g \in S!Hosts}] BY <1>2, <1>3
<1>6. \A g \in S!Hosts : [hs EXCEPT ![h] = x][g] = IF g = h THEN x ELSE hs[g] BY <1>3
<1>7. \A g \in S!Hosts : [hs EXCEPT ![h] = x][g] \in ScgiHost(g)
  <2>1. \A g \in S!Hosts : hs[g] \in ScgiHost(g) BY DEF ScgiHosts
  <2> QED BY <1>2, <1>6, <2>1
<1>8. [hs EXCEPT ![h] = x] \in ScgiHosts BY <1>5, <1>7 DEF ScgiHosts
<1> QED BY <1>1, <1>4, <1>6, <1>8 DEF x

\* What the updates of the module are in these terms.
LEMMA ScgiForms ==
    ASSUME NEW hs \in ScgiHosts, NEW h \in S!Hosts
    PROVE  LET l == hs[h].load
               a == hs[h].active_procs
               s == hs[h].first
               f == hs[h].procs
           IN  /\ \A v : [hs EXCEPT ![h].load = v] = With(hs, h, v, a, s, f)
               /\ \A v : [hs EXCEPT ![h].first = v] = With(hs, h, l, a, v, f)
               /\ \A p \in S!Procs(h) : LET q == f[p] IN
                     /\ \A v : [hs EXCEPT ![h].procs[p].load = v] =
                           With(hs, h, l, a, s, [f EXCEPT ![p] = ProcOf(q.state, v, q.is_local, q.child)])
                     /\ \A v : [hs EXCEPT ![h].procs[p].state = v] =
                           With(hs, h, l, a, s, [f EXCEPT ![p] = ProcOf(v, q.load, q.is_local, q.child)])
                     /\ \A v : [hs EXCEPT ![h].procs[p].is_local = v] =
                           With(hs, h, l, a, s, [f EXCEPT ![p] = ProcOf(q.state, q.load, v, q.child)])
                     /\ \A v : [hs EXCEPT ![h].procs[p].child = v] =
                           With(hs, h, l, a, s, [f EXCEPT ![p] = ProcOf(q.state, q.load, q.is_local, v)])
<1> DEFINE l == hs[h].load
           a == hs[h].active_procs
           s == hs[h].first
           f == hs[h].procs
<1>1. hs[h] = HostOf(l, a, s, f) /\ DOMAIN hs = S!Hosts /\ DOMAIN f = S!Procs(h) BY ScgiReads
<1> HIDE DEF l, a, s, f
<1>2. ASSUME NEW x, x = HostOf(l, a, s, f), NEW v
      PROVE  /\ [x EXCEPT !.load = v] = HostOf(v, a, s, f) /\ [x EXCEPT !.active_procs = v] = HostOf(l, v, s, f)
             /\ [x EXCEPT !.first = v] = HostOf(l, a, v, f) /\ [x EXCEPT !.procs = v] = HostOf(l, a, s, v)
  BY <1>2 DEF HostOf
<1>3. ASSUME NEW v PROVE [hs EXCEPT ![h].load = v] = With(hs, h, v, a, s, f)
  <2>1. [hs EXCEPT ![h].load = v] = [hs EXCEPT ![h] = [hs[h] EXCEPT !.load = v]] OBVIOUS
  <2>2. [hs[h] EXCEPT !.load = v] = HostOf(v, a, s, f) BY <1>1, <1>2
  <2> QED BY <2>1, <2>2 DEF With
<1>4. ASSUME NEW v PROVE [hs EXCEPT ![h].first = v] = With(hs, h, l, a, v, f)
  <2>1. [hs EXCEPT ![h].first = v] = [hs EXCEPT ![h] = [hs[h] EXCEPT !.first = v]] OBVIOUS
  <2>2. [hs[h] EXCEPT !.first = v] = HostOf(l, a, v, f) BY <1>1, <1>2
  <2> QED BY <2>1, <2>2 DEF With
<1>5. ASSUME NEW p \in S!Procs(h)
      PROVE  LET q == f[p] IN
             /\ \A v : [hs EXCEPT ![h].procs[p].load = v] =
                   With(hs, h, l, a, s, [f EXCEPT ![p] = ProcOf(q.state, v, q.is_local, q.child)])
             /\ \A v : [hs EXCEPT ![h].procs[p].state = v] =
                   With(hs, h, l, a, s, [f EXCEPT ![p] = ProcOf(v, q.load, q.is_local, q.child)])
             /\ \A v : [hs EXCEPT ![h].procs[p].is_local = v] =
                   With(hs, h, l, a, s, [f EXCEPT ![p] = ProcOf(q.state, q.load, v, q.child)])
             /\ \A v : [hs EXCEPT ![h].procs[p].child = v] =
                   With(hs, h, l, a, s, [f EXCEPT ![p] = ProcOf(q.state, q.load, q.is_local, v)])
  <2> DEFINE q == f[p]
  <2>1. q = ProcOf(q.state, q.load, q.is_local, q.child) BY ScgiProcReads DEF f
  <2>2. ASSUME NEW g PROVE [hs EXCEPT ![h].procs = g] = With(hs, h, l, a, s, g)
    <3>1. [hs EXCEPT ![h].procs = g] = [hs EXCEPT ![h] = [hs[h] EXCEPT !.procs = g]] OBVIOUS
    <3>2. [hs[h] EXCEPT !.procs = g] = HostOf(l, a, s, g) BY <1>1, <1>2
    <3> QED BY <3>1, <3>2 DEF With
  <2>3. \A v : [q EXCEPT !.load = v] = ProcOf(q.state, v, q.is_local, q.child) BY <2>1 DEF ProcOf
  <2>4. \A v : [q EXCEPT !.state = v] = ProcOf(v, q.load, q.is_local, q.child) BY <2>1 DEF ProcOf
  <2>5. \A v : [q EXCEPT !.is_local = v] = ProcOf(q.state, q.load, v, q.child) BY <2>1 DEF ProcOf
  <2>6. \A v : [q EXCEPT !.child = v] = ProcOf(q.state, q.load, q.is_local, v) BY <2>1 DEF ProcOf
  <2>7. ASSUME NEW x PROVE [hs EXCEPT ![h].procs[p] = x] = With(hs, h, l, a, s, [f EXCEPT ![p] = x])
    BY <2>2 DEF f
  <2>8. \A v : [hs EXCEPT ![h].procs[p].load = v] = [hs EXCEPT ![h].procs[p] = [q EXCEPT !.load = v]]
    BY DEF f
  <2>9. \A v : [hs EXCEPT ![h].procs[p].state = v] = [hs EXCEPT ![h].procs[p] = [q EXCEPT !.state = v]]
    BY DEF f
  <2>10. \A v : [hs EXCEPT ![h].procs[p].is_local = v] = [hs EXCEPT ![h].procs[p] = [q EXCEPT !.is_local = v]]
    BY DEF f
  <2>11. \A v : [hs EXCEPT ![h].procs[p].child = v] = [hs EXCEPT ![h].procs[p] = [q EXCEPT !.child = v]]
    BY DEF f
  <2> HIDE DEF q
  <2>13. \A v : [hs EXCEPT ![h].procs[p].load = v] =
                With(hs, h, l, a, s, [f EXCEPT ![p] = ProcOf(q.state, v, q.is_local, q.child)])
    BY ZenonT(60), <2>3, <2>7, <2>8
  <2>14. \A v : [hs EXCEPT ![h].procs[p].state = v] =
                With(hs, h, l, a, s, [f EXCEPT ![p] = ProcOf(v, q.load, q.is_local, q.child)])
    BY ZenonT(60), <2>4, <2>7, <2>9
  <2>15. \A v : [hs EXCEPT ![h].procs[p].is_local = v] =
                With(hs, h, l, a, s, [f EXCEPT ![p] = ProcOf(q.state, q.load, v, q.child)])
    BY ZenonT(60), <2>5, <2>7, <2>10
  <2>16. \A v : [hs EXCEPT ![h].procs[p].child = v] =
                With(hs, h, l, a, s, [f EXCEPT ![p] = ProcOf(q.state, q.load, q.is_local, v)])
    BY ZenonT(60), <2>6, <2>7, <2>11
  <2> QED BY <2>13, <2>14, <2>15, <2>16 DEF q
<1> QED BY <1>3, <1>4, <1>5 DEF l, a, s, f

InState(hs, h, p, v, b) == [hs EXCEPT ![h].procs[p].state = v, ![h].active_procs = b]
LEMMA ScgiInState ==
    ASSUME NEW hs \in ScgiHosts, NEW h \in S!Hosts, NEW p \in S!Procs(h), NEW v, NEW b
    PROVE  LET q == hs[h].procs[p] IN
           InState(hs, h, p, v, b) =
               With(hs, h, hs[h].load, b, hs[h].first,
                    [hs[h].procs EXCEPT ![p] = ProcOf(v, q.load, q.is_local, q.child)])
<1> DEFINE l == hs[h].load
           a == hs[h].active_procs
           s == hs[h].first
           q == hs[h].procs[p]
           n == [hs EXCEPT ![h].procs[p].state = v]
           g == [hs[h].procs EXCEPT ![p] = ProcOf(v, q.load, q.is_local, q.child)]
<1>1. DOMAIN hs = S!Hosts BY ScgiReads
<1>2. n = With(hs, h, l, a, s, g) BY ScgiForms
<1>3. InState(hs, h, p, v, b) = [n EXCEPT ![h].active_procs = b] BY DEF InState
<1> HIDE DEF n, g, l, a, s
<1>4. [n EXCEPT ![h].active_procs = b] = With(hs, h, l, b, s, g)
  <2>1. n[h] = HostOf(l, a, s, g) /\ DOMAIN n = S!Hosts BY <1>1, <1>2 DEF With
  <2>2. [n[h] EXCEPT !.active_procs = b] = HostOf(l, b, s, g) BY <2>1 DEF HostOf
  <2>3. [n EXCEPT ![h].active_procs = b] = [n EXCEPT ![h] = [n[h] EXCEPT !.active_procs = b]] OBVIOUS
  <2>4. [n EXCEPT ![h] = HostOf(l, b, s, g)] = [hs EXCEPT ![h] = HostOf(l, b, s, g)]
    BY <1>1, <1>2 DEF With
  <2> QED BY <2>2, <2>3, <2>4 DEF With
<1> QED BY <1>3, <1>4 DEF g, n, l, s

-----------------------------------------------------------------------------
(***************************************************************************)
(* What does not touch the loads: it leaves them as they are, and a list   *)
(* that is in order stays so.                                              *)
(***************************************************************************)
ProcLoads(hs, h) == [p \in S!Procs(h) |-> hs[h].procs[p].load]
ScgiOrdered(hs, h) == InOrder(hs[h].first, ProcLoads(hs, h))
SameHost(hs, n, h) ==
    /\ n[h].load = hs[h].load /\ ProcLoads(n, h) = ProcLoads(hs, h)
    /\ ScgiOrdered(hs, h) => ScgiOrdered(n, h)
ScgiSame(hs, n) == \A h \in S!Hosts : SameHost(hs, n, h)

LEMMA ScgiSameTransitive ==
    ASSUME NEW hs, NEW m, NEW n, ScgiSame(hs, m), ScgiSame(m, n)
    PROVE  ScgiSame(hs, n)
BY DEF ScgiSame, SameHost

LEMMA ScgiSameItself == \A hs : ScgiSame(hs, hs)
BY DEF ScgiSame, SameHost

LEMMA RunsChange ==
    ASSUME NEW A, IsFiniteSet(A), NEW f \in [A -> ScgiProcs], NEW p \in A, NEW q \in ScgiProcs
    PROVE  /\ Cardinality(Runs(f)) \in Nat
           /\ Cardinality(Runs([f EXCEPT ![p] = q])) =
                 Cardinality(Runs(f)) + (IF q.state = "RUNNING" THEN 1 ELSE 0)
                                      - (IF f[p].state = "RUNNING" THEN 1 ELSE 0)
<1> DEFINE g == [f EXCEPT ![p] = q]
           B == Runs(f) \ {p}
<1>1. IsFiniteSet(Runs(f)) /\ IsFiniteSet(B) BY FS_Subset DEF Runs
<1>2. Cardinality(Runs(f)) \in Nat /\ Cardinality(B) \in Nat BY <1>1, FS_CardinalityType
<1>3. Cardinality(B \cup {p}) = Cardinality(B) + 1
  <2>1. p \notin B OBVIOUS
  <2> HIDE DEF B
  <2> QED BY <1>1, <2>1, FS_AddElement
<1>4. Runs(f) = IF f[p].state = "RUNNING" THEN B \cup {p} ELSE B BY DEF Runs
<1>5. Runs(g) = IF q.state = "RUNNING" THEN B \cup {p} ELSE B BY DEF Runs
<1> HIDE DEF B, g
<1>6. Cardinality(Runs(f)) = Cardinality(B) + (IF f[p].state = "RUNNING" THEN 1 ELSE 0) BY <1>2, <1>3, <1>4
<1>7. Cardinality(Runs(g)) = Cardinality(B) + (IF q.state = "RUNNING" THEN 1 ELSE 0) BY <1>2, <1>3, <1>5
<1> QED BY <1>2, <1>6, <1>7 DEF g

\* A process may become another, and its host run more of them or fewer.
LEMMA ScgiBecomes ==
    ASSUME S!SCGIAssumption, NEW hs \in ScgiHosts, NEW h \in S!Hosts, NEW p \in S!Procs(h),
           NEW q \in ScgiProcs, q.load = hs[h].procs[p].load, NEW a \in Int,
           a >= hs[h].active_procs + (IF q.state = "RUNNING" THEN 1 ELSE 0)
                                   - (IF hs[h].procs[p].state = "RUNNING" THEN 1 ELSE 0)
    PROVE  LET n == With(hs, h, hs[h].load, a, hs[h].first, [hs[h].procs EXCEPT ![p] = q])
           IN  n \in ScgiHosts /\ ScgiSame(hs, n) /\ n[h].procs[p] = q /\ n[h].active_procs = a
<1> DEFINE f == hs[h].procs
           g == [f EXCEPT ![p] = q]
           n == With(hs, h, hs[h].load, a, hs[h].first, g)
<1>1. /\ hs[h].load \in Int /\ hs[h].active_procs \in Int
      /\ hs[h].first \in Seq(S!Procs(h)) /\ Lists(S!Procs(h), hs[h].first)
      /\ f \in [S!Procs(h) -> ScgiProcs] /\ hs[h].active_procs >= Cardinality(Runs(f))
  BY ScgiReads
<1>2. IsFiniteSet(S!Procs(h)) BY ScgiFinite
<1> HIDE DEF f
<1>3. /\ Cardinality(Runs(f)) \in Nat
      /\ Cardinality(Runs(g)) = Cardinality(Runs(f)) + (IF q.state = "RUNNING" THEN 1 ELSE 0)
                                                     - (IF f[p].state = "RUNNING" THEN 1 ELSE 0)
  BY ZenonT(60), <1>1, <1>2, RunsChange
<1>4. a >= Cardinality(Runs(g)) /\ g \in [S!Procs(h) -> ScgiProcs] BY <1>1, <1>3 DEF f
<1>5. g[p] = q /\ \A o \in S!Procs(h) : g[o].load = f[o].load BY <1>1 DEF f
<1> HIDE DEF g
<1>6. /\ n \in ScgiHosts /\ \A o \in S!Hosts \ {h} : n[o] = hs[o]
      /\ n[h].load = hs[h].load /\ n[h].active_procs = a /\ n[h].first = hs[h].first /\ n[h].procs = g
  BY <1>1, <1>4, ScgiWith
<1> HIDE DEF n
<1>7. ProcLoads(n, h) = ProcLoads(hs, h) BY <1>5, <1>6 DEF ProcLoads, f
<1>8. SameHost(hs, n, h) BY <1>6, <1>7 DEF SameHost, ScgiOrdered
<1>9. \A o \in S!Hosts \ {h} : SameHost(hs, n, o) BY <1>6 DEF SameHost, ScgiOrdered, ProcLoads
<1>10. ScgiSame(hs, n) BY <1>8, <1>9 DEF ScgiSame
<1> QED BY <1>5, <1>6, <1>10 DEF n, g, f

\* The values that its state, its child and its being ours can get.
LEMMA ScgiProcUpdates ==
    ASSUME NEW q \in ScgiProcs
    PROVE  /\ \A v \in {"RUNNING", "DISABLED", "DIED_WAIT_FOR_PID", "DIED"} :
                 (v = "DIED" => q.child = "none") /\ (q.is_local \/ v \in {"RUNNING", "DISABLED"}) =>
                 ProcOf(v, q.load, q.is_local, q.child) \in ScgiProcs
           /\ \A v \in BOOLEAN : q.child = "none" /\ q.state = "RUNNING" =>
                 ProcOf(q.state, q.load, v, q.child) \in ScgiProcs
           /\ \A v \in {"none", "alive", "zombie"} :
                 v = "none" \/ (q.is_local /\ q.state # "DIED") =>
                 ProcOf(q.state, q.load, q.is_local, v) \in ScgiProcs
           /\ \A v \in 0..(SizeModulus - 1) : ProcOf(q.state, v, q.is_local, q.child) \in ScgiProcs
BY DEF ScgiProcs, ProcOf

LEMMA ScgiStates ==
    ASSUME S!SCGIAssumption, NEW hs \in ScgiHosts, NEW h \in S!Hosts, NEW p \in S!Procs(h),
           NEW v \in {"RUNNING", "DISABLED", "DIED_WAIT_FOR_PID", "DIED"},
           v = "DIED" => hs[h].procs[p].child = "none",
           hs[h].procs[p].is_local \/ v \in {"RUNNING", "DISABLED"}
    PROVE  /\ \A a \in Int :
                 a >= hs[h].active_procs + (IF v = "RUNNING" THEN 1 ELSE 0)
                                         - (IF hs[h].procs[p].state = "RUNNING" THEN 1 ELSE 0) =>
                 LET n == InState(hs, h, p, v, a)
                     q == hs[h].procs[p]
                 IN  /\ n \in ScgiHosts /\ ScgiSame(hs, n)
                     /\ n[h].procs[p] = ProcOf(v, q.load, q.is_local, q.child)
           /\ v # "RUNNING" =>
                 LET n == [hs EXCEPT ![h].procs[p].state = v]
                 IN  n \in ScgiHosts /\ ScgiSame(hs, n)
<1> DEFINE q == hs[h].procs[p]
           r == ProcOf(v, q.load, q.is_local, q.child)
<1>1. q \in ScgiProcs BY ScgiProcReads
<1>2. r \in ScgiProcs BY <1>1, ScgiProcUpdates
<1>3. r.load = q.load /\ r.state = v BY DEF ProcOf
<1>4. hs[h].active_procs \in Int BY ScgiReads
<1>5. \A a : InState(hs, h, p, v, a) =
                With(hs, h, hs[h].load, a, hs[h].first, [hs[h].procs EXCEPT ![p] = r])
  BY ScgiInState
<1>6. [hs EXCEPT ![h].procs[p].state = v] =
         With(hs, h, hs[h].load, hs[h].active_procs, hs[h].first, [hs[h].procs EXCEPT ![p] = r])
  BY ScgiForms
<1> HIDE DEF r
<1>7. ASSUME NEW a \in Int, a >= hs[h].active_procs + (IF v = "RUNNING" THEN 1 ELSE 0)
                                                    - (IF q.state = "RUNNING" THEN 1 ELSE 0)
      PROVE  LET n == With(hs, h, hs[h].load, a, hs[h].first, [hs[h].procs EXCEPT ![p] = r])
             IN  n \in ScgiHosts /\ ScgiSame(hs, n) /\ n[h].procs[p] = r
  BY <1>2, <1>3, <1>7, ScgiBecomes
<1>8. v # "RUNNING" => hs[h].active_procs >= hs[h].active_procs + (IF v = "RUNNING" THEN 1 ELSE 0)
                                                    - (IF q.state = "RUNNING" THEN 1 ELSE 0)
  BY ONLY <1>4
<1>9. v # "RUNNING" =>
         LET n == [hs EXCEPT ![h].procs[p].state = v]
         IN  n \in ScgiHosts /\ ScgiSame(hs, n)
  BY ZenonT(60), <1>4, <1>6, <1>7, <1>8
<1> QED BY <1>5, <1>7, <1>9 DEF r

LEMMA ScgiChildren ==
    ASSUME S!SCGIAssumption, NEW hs \in ScgiHosts, NEW h \in S!Hosts, NEW p \in S!Procs(h)
    PROVE  LET q == hs[h].procs[p] IN
           /\ \A v \in {"none", "alive", "zombie"} :
                 v = "none" \/ (q.is_local /\ q.state # "DIED") =>
                 LET n == [hs EXCEPT ![h].procs[p].child = v]
                 IN  /\ n \in ScgiHosts /\ ScgiSame(hs, n)
                     /\ n[h].procs[p] = ProcOf(q.state, q.load, q.is_local, v)
           /\ \A v \in BOOLEAN : q.child = "none" /\ q.state = "RUNNING" =>
                 LET n == [hs EXCEPT ![h].procs[p].is_local = v]
                 IN  /\ n \in ScgiHosts /\ ScgiSame(hs, n)
                     /\ n[h].procs[p] = ProcOf(q.state, q.load, v, q.child)
<1> DEFINE q == hs[h].procs[p]
<1>1. q \in ScgiProcs BY ScgiProcReads
<1>2. hs[h].active_procs \in Int BY ScgiReads
<1>3. ASSUME NEW r \in ScgiProcs, r.load = q.load, r.state = q.state
      PROVE  LET n == With(hs, h, hs[h].load, hs[h].active_procs, hs[h].first, [hs[h].procs EXCEPT ![p] = r])
             IN  n \in ScgiHosts /\ ScgiSame(hs, n) /\ n[h].procs[p] = r
  <2>1. hs[h].active_procs >= hs[h].active_procs + (IF r.state = "RUNNING" THEN 1 ELSE 0)
                                                 - (IF q.state = "RUNNING" THEN 1 ELSE 0)
    BY ONLY <1>2, <1>3
  <2> QED BY <1>2, <1>3, <2>1, ScgiBecomes
<1>4. ASSUME NEW v \in {"none", "alive", "zombie"}, v = "none" \/ (q.is_local /\ q.state # "DIED")
      PROVE  LET n == [hs EXCEPT ![h].procs[p].child = v]
             IN  /\ n \in ScgiHosts /\ ScgiSame(hs, n)
                 /\ n[h].procs[p] = ProcOf(q.state, q.load, q.is_local, v)
  <2> DEFINE r == ProcOf(q.state, q.load, q.is_local, v)
  <2>1. r \in ScgiProcs BY <1>1, <1>4, ScgiProcUpdates
  <2>2. r.load = q.load /\ r.state = q.state BY DEF ProcOf
  <2>3. [hs EXCEPT ![h].procs[p].child = v] =
           With(hs, h, hs[h].load, hs[h].active_procs, hs[h].first, [hs[h].procs EXCEPT ![p] = r])
    BY ONLY ScgiForms
  <2> HIDE DEF r
  <2>4. LET n == With(hs, h, hs[h].load, hs[h].active_procs, hs[h].first, [hs[h].procs EXCEPT ![p] = r])
        IN  n \in ScgiHosts /\ ScgiSame(hs, n) /\ n[h].procs[p] = r
    BY ONLY <1>3, <2>1, <2>2
  <2> QED BY ONLY <2>3, <2>4 DEF r
<1>5. ASSUME NEW v \in BOOLEAN, q.child = "none", q.state = "RUNNING"
      PROVE  LET n == [hs EXCEPT ![h].procs[p].is_local = v]
             IN  /\ n \in ScgiHosts /\ ScgiSame(hs, n)
                 /\ n[h].procs[p] = ProcOf(q.state, q.load, v, q.child)
  <2> DEFINE r == ProcOf(q.state, q.load, v, q.child)
  <2>1. r \in ScgiProcs BY <1>1, <1>5, ScgiProcUpdates
  <2>2. r.load = q.load /\ r.state = q.state BY DEF ProcOf
  <2>3. [hs EXCEPT ![h].procs[p].is_local = v] =
           With(hs, h, hs[h].load, hs[h].active_procs, hs[h].first, [hs[h].procs EXCEPT ![p] = r])
    BY ONLY ScgiForms
  <2> HIDE DEF r
  <2>4. LET n == With(hs, h, hs[h].load, hs[h].active_procs, hs[h].first, [hs[h].procs EXCEPT ![p] = r])
        IN  n \in ScgiHosts /\ ScgiSame(hs, n) /\ n[h].procs[p] = r
    BY ONLY <1>3, <2>1, <2>2
  <2> QED BY ONLY <2>3, <2>4 DEF r
<1> QED BY <1>4, <1>5

-----------------------------------------------------------------------------
(***************************************************************************)
(* The sorts.  They keep the processes and put the list in order, if the   *)
(* one that is moved is the only one out of it.                            *)
(***************************************************************************)
SameButFirst(hs, n, h) ==
    /\ n \in ScgiHosts /\ \A g \in S!Hosts \ {h} : n[g] = hs[g]
    /\ n[h].load = hs[h].load /\ n[h].active_procs = hs[h].active_procs /\ n[h].procs = hs[h].procs

LEMMA ScgiMoves ==
    ASSUME NEW hs \in ScgiHosts, NEW h \in S!Hosts,
           NEW k \in 1..Len(hs[h].first), NEW to \in 1..Len(hs[h].first)
    PROVE  LET n == [hs EXCEPT ![h].first = Moved(hs[h].first, k, to)]
           IN  SameButFirst(hs, n, h) /\ n[h].first = Moved(hs[h].first, k, to)
<1> DEFINE s == hs[h].first
           t == Moved(s, k, to)
<1>1. /\ hs[h].load \in Int /\ hs[h].active_procs \in Int
      /\ s \in Seq(S!Procs(h)) /\ Lists(S!Procs(h), s)
      /\ hs[h].procs \in [S!Procs(h) -> ScgiProcs]
      /\ hs[h].active_procs >= Cardinality(Runs(hs[h].procs))
  BY ScgiReads
<1>2. [hs EXCEPT ![h].first = t] = With(hs, h, hs[h].load, hs[h].active_procs, t, hs[h].procs)
  BY ScgiForms
<1>3. k \in 1..Len(s) /\ to \in 1..Len(s) OBVIOUS
<1> HIDE DEF s
<1>4. t \in Seq(S!Procs(h)) /\ Lists(S!Procs(h), t) BY ONLY <1>1, <1>3, MovedLists
<1> HIDE DEF t
<1>5. LET n == With(hs, h, hs[h].load, hs[h].active_procs, t, hs[h].procs) IN
      /\ n \in ScgiHosts /\ \A g \in S!Hosts \ {h} : n[g] = hs[g]
      /\ n[h].load = hs[h].load /\ n[h].active_procs = hs[h].active_procs
      /\ n[h].first = t /\ n[h].procs = hs[h].procs
  <2>1. /\ hs \in ScgiHosts /\ h \in S!Hosts /\ hs[h].load \in Int /\ hs[h].active_procs \in Int
        /\ t \in Seq(S!Procs(h)) /\ Lists(S!Procs(h), t) /\ hs[h].procs \in [S!Procs(h) -> ScgiProcs]
        /\ hs[h].active_procs >= Cardinality(Runs(hs[h].procs))
    BY <1>1, <1>4
  <2> DEFINE l == hs[h].load  a == hs[h].active_procs  f == hs[h].procs
  <2>2. /\ hs \in ScgiHosts /\ h \in S!Hosts /\ l \in Int /\ a \in Int
        /\ t \in Seq(S!Procs(h)) /\ Lists(S!Procs(h), t) /\ f \in [S!Procs(h) -> ScgiProcs]
        /\ a >= Cardinality(Runs(f))
    BY ONLY <2>1
  <2> HIDE DEF l, a, f
  <2>3. LET n == With(hs, h, l, a, t, f) IN
        /\ n \in ScgiHosts /\ \A g \in S!Hosts \ {h} : n[g] = hs[g]
        /\ n[h].load = l /\ n[h].active_procs = a /\ n[h].first = t /\ n[h].procs = f
    BY ONLY <2>2, ScgiWith
  <2> QED BY <2>3 DEF l, a, f
<1> QED BY <1>2, <1>5 DEF t, s, SameButFirst

LEMMA ScgiPlace ==
    ASSUME NEW hs \in ScgiHosts, NEW h \in S!Hosts, NEW p \in S!Procs(h)
    PROVE  /\ S!At(hs, h, p) \in 1..Len(hs[h].first) /\ hs[h].first[S!At(hs, h, p)] = p
           /\ hs[h].first \in Seq(S!Procs(h)) /\ Lists(S!Procs(h), hs[h].first)
           /\ \A k \in 1..Len(hs[h].first) : hs[h].first[k] \in S!Procs(h)
           /\ ProcLoads(hs, h) \in [S!Procs(h) -> Int]
           /\ \A q \in S!Procs(h) : S!Load(hs, h, q) = ProcLoads(hs, h)[q]
<1>1. hs[h].first \in Seq(S!Procs(h)) /\ Lists(S!Procs(h), hs[h].first) BY ScgiReads
<1>2. DOMAIN hs[h].first = 1..Len(hs[h].first) BY <1>1
<1>3. \E k \in 1..Len(hs[h].first) : hs[h].first[k] = p BY <1>1 DEF Lists
<1>4. S!At(hs, h, p) \in 1..Len(hs[h].first) /\ hs[h].first[S!At(hs, h, p)] = p BY <1>2, <1>3 DEF S!At
<1>5. \A q \in S!Procs(h) : hs[h].procs[q].load \in Int
  <2> TAKE q \in S!Procs(h)
  <2>1. hs[h].procs[q].load \in 0..(SizeModulus - 1) BY ScgiProcReads
  <2> QED BY <2>1
<1> QED BY <1>1, <1>4, <1>5 DEF ProcLoads, S!Load, S!Proc

LEMMA ScgiSortsDown ==
    ASSUME NEW hs \in ScgiHosts, NEW h \in S!Hosts, NEW p \in S!Procs(h)
    PROVE  LET n == S!scgi_proclist_sort_down(hs, h, p)
           IN  /\ SameButFirst(hs, n, h)
               /\ Falls(hs[h].first, ProcLoads(hs, h), p) => ScgiOrdered(n, h)
<1> DEFINE s == hs[h].first
           k == S!At(hs, h, p)
           load == ProcLoads(hs, h)
           Stops(n) == /\ n = k \/ S!Load(hs, h, s[n]) >= S!Load(hs, h, p)
                       /\ \A m \in 1..(n - 1) : S!Load(hs, h, s[m]) < S!Load(hs, h, p)
           to == CHOOSE n \in 1..k : Stops(n)
           n == S!scgi_proclist_sort_down(hs, h, p)
<1>1. /\ k \in 1..Len(s) /\ s[k] = p /\ s \in Seq(S!Procs(h)) /\ Lists(S!Procs(h), s)
      /\ \A i \in 1..Len(s) : s[i] \in S!Procs(h)
      /\ load \in [S!Procs(h) -> Int] /\ \A q \in S!Procs(h) : S!Load(hs, h, q) = load[q]
  BY ScgiPlace
<1>2. n = [hs EXCEPT ![h].first = S!Put(S!Cut(s, k), to, p)] BY DEF S!scgi_proclist_sort_down
<1> HIDE DEF s, k, load, n
<1>3. \E m \in 1..k : Stops(m)
  <2> DEFINE B == {m \in 1..k : load[s[m]] >= load[p]}
  <2>1. k \in B /\ B \in SUBSET (0..k) /\ k \in Nat BY <1>1
  <2> HIDE DEF B
  <2>2. PICK m \in B : \A i \in B : m <= i BY <2>1, LeastNumber
  <2>3. m \in 1..k /\ load[s[m]] >= load[p] BY <2>2 DEF B
  <2>4. ASSUME NEW i \in 1..(m - 1) PROVE load[s[i]] < load[p]
    <3>1. i \in 1..k /\ ~(m <= i) BY <2>1, <2>3
    <3>2. i \notin B BY <2>2, <3>1
    <3>3. ~(load[s[i]] >= load[p]) BY <3>1, <3>2 DEF B
    <3>4. i \in 1..Len(s) BY <1>1, <3>1
    <3>5. load[s[i]] \in Int /\ load[p] \in Int BY <1>1, <3>4
    <3> QED BY <3>3, <3>5
  <2>5. \A i \in 1..k : s[i] \in S!Procs(h) BY <1>1
  <2>6. \A i \in 1..(m - 1) : i \in 1..k BY <2>1, <2>3
  <2> QED BY <1>1, <2>3, <2>4, <2>5, <2>6
<1>4. to \in 1..k /\ Stops(to)
  <2> HIDE DEF Stops
  <2> QED BY <1>3
<1> HIDE DEF to
<1>5. to \in 1..Len(s) BY <1>1, <1>4
<1>6. n = [hs EXCEPT ![h].first = Moved(s, k, to)] BY <1>1, <1>2 DEF Moved
<1>7. SameButFirst(hs, n, h) /\ n[h].first = Moved(s, k, to)
  <2>1. k \in 1..Len(hs[h].first) /\ to \in 1..Len(hs[h].first) BY <1>1, <1>5 DEF s
  <2>2. LET m == [hs EXCEPT ![h].first = Moved(hs[h].first, k, to)]
        IN  SameButFirst(hs, m, h) /\ m[h].first = Moved(hs[h].first, k, to)
    BY <2>1, ScgiMoves
  <2> QED BY <1>6, <2>2 DEF s
<1>8. ASSUME Falls(s, load, p) PROVE ScgiOrdered(n, h)
  <2>1. to = k \/ load[s[to]] >= load[s[k]]
    <3>1. s[to] \in S!Procs(h) BY <1>1, <1>5
    <3> QED BY <1>1, <1>4, <3>1
  <2>2. \A m \in 1..(to - 1) : load[s[m]] < load[s[k]]
    <3>1. \A m \in 1..(to - 1) : m \in 1..Len(s) BY <1>5
    <3>2. \A m \in 1..(to - 1) : s[m] \in S!Procs(h) BY <1>1, <3>1
    <3> QED BY <1>1, <1>4, <3>2
  <2>3. Falls(s, load, s[k]) BY <1>1, <1>8
  <2>4. InOrder(Moved(s, k, to), load) BY ONLY <1>1, <1>4, <2>1, <2>2, <2>3, MovedDown
  <2>5. ProcLoads(n, h) = load BY <1>7 DEF SameButFirst, ProcLoads, load
  <2> QED BY <1>7, <2>4, <2>5 DEF ScgiOrdered
<1> QED BY <1>7, <1>8 DEF s, load, n

LEMMA ScgiSortsUp ==
    ASSUME NEW hs \in ScgiHosts, NEW h \in S!Hosts, NEW p \in S!Procs(h)
    PROVE  LET n == S!scgi_proclist_sort_up(hs, h, p)
           IN  /\ SameButFirst(hs, n, h)
               /\ Rises(hs[h].first, ProcLoads(hs, h), p) => ScgiOrdered(n, h)
<1> DEFINE s == hs[h].first
           k == S!At(hs, h, p)
           load == ProcLoads(hs, h)
           past == {i \in k..Len(s) : \A m \in (k + 1)..i : S!Load(hs, h, s[m]) < S!Load(hs, h, p)}
           to == CHOOSE i \in past : \A m \in past : m <= i
           n == S!scgi_proclist_sort_up(hs, h, p)
<1>1. /\ k \in 1..Len(s) /\ s[k] = p /\ s \in Seq(S!Procs(h)) /\ Lists(S!Procs(h), s)
      /\ \A i \in 1..Len(s) : s[i] \in S!Procs(h)
      /\ load \in [S!Procs(h) -> Int] /\ \A q \in S!Procs(h) : S!Load(hs, h, q) = load[q]
  BY ScgiPlace
<1>2. n = [hs EXCEPT ![h].first = S!Put(S!Cut(s, k), to, p)] BY DEF S!scgi_proclist_sort_up
<1> HIDE DEF s, k, load, n
<1>3. \A i \in k..Len(s) : i \in past <=> \A m \in (k + 1)..i : load[s[m]] < load[p]
  <2> TAKE i \in k..Len(s)
  <2>1. \A m \in (k + 1)..i : m \in 1..Len(s) BY <1>1
  <2>2. \A m \in (k + 1)..i : S!Load(hs, h, s[m]) = load[s[m]] BY <1>1, <2>1
  <2>3. S!Load(hs, h, p) = load[p] BY <1>1
  <2> QED BY <2>2, <2>3
<1>4. past \subseteq k..Len(s) OBVIOUS
<1> HIDE DEF past
<1>5. \E i \in past : \A m \in past : m <= i
  <2> DEFINE N == Len(s)
             B == {m \in 0..N : N - m \in past}
  <2>1. N \in Nat /\ k \in past /\ k \in 1..N BY <1>1, <1>3
  <2>2. B \in SUBSET (0..N) /\ N - k \in B BY <2>1
  <2> HIDE DEF B
  <2>3. PICK m \in B : \A i \in B : m <= i BY <2>1, <2>2, LeastNumber
  <2>4. m \in 0..N /\ N - m \in past BY <2>3 DEF B
  <2>5. ASSUME NEW i \in past PROVE i <= N - m
    <3>1. i \in k..N BY <1>4
    <3>2. N - i \in 0..N /\ N - (N - i) = i BY <2>1, <3>1
    <3>3. N - i \in B BY <3>2 DEF B
    <3>4. m <= N - i BY <2>3, <3>3
    <3> QED BY <2>1, <2>4, <3>1, <3>4
  <2> QED BY <2>4, <2>5
<1>6. to \in past /\ \A m \in past : m <= to BY <1>5
<1> HIDE DEF to
<1>7. to \in k..Len(s) /\ to \in 1..Len(s) BY <1>1, <1>4, <1>6
<1>8. n = [hs EXCEPT ![h].first = Moved(s, k, to)] BY <1>1, <1>2 DEF Moved
<1>9. SameButFirst(hs, n, h) /\ n[h].first = Moved(s, k, to)
  <2>1. k \in 1..Len(hs[h].first) /\ to \in 1..Len(hs[h].first) BY <1>1, <1>7 DEF s
  <2>2. LET m == [hs EXCEPT ![h].first = Moved(hs[h].first, k, to)]
        IN  SameButFirst(hs, m, h) /\ m[h].first = Moved(hs[h].first, k, to)
    BY <2>1, ScgiMoves
  <2> QED BY <1>8, <2>2 DEF s
<1>10. ASSUME Rises(s, load, p) PROVE ScgiOrdered(n, h)
  <2>1. \A m \in (k + 1)..to : load[s[m]] < load[s[k]] BY <1>1, <1>3, <1>6, <1>7
  <2>2. to = Len(s) \/ load[s[to + 1]] >= load[s[k]]
    <3> SUFFICES ASSUME to # Len(s) PROVE load[s[to + 1]] >= load[s[k]] OBVIOUS
    <3>1. to + 1 \in k..Len(s) /\ to + 1 \in 1..Len(s) /\ ~(to + 1 <= to) BY <1>1, <1>7
    <3>2. to + 1 \notin past BY <1>6, <3>1
    <3>3. PICK m \in (k + 1)..(to + 1) : ~(load[s[m]] < load[s[k]]) BY <1>1, <1>3, <3>1, <3>2
    <3>4. m = to + 1 BY <1>1, <1>7, <2>1, <3>3
    <3>5. load[s[to + 1]] \in Int /\ load[s[k]] \in Int BY <1>1, <3>1
    <3> QED BY <3>3, <3>4, <3>5
  <2>3. Rises(s, load, s[k]) BY <1>1, <1>10
  <2>4. InOrder(Moved(s, k, to), load) BY ONLY <1>1, <1>7, <2>1, <2>2, <2>3, MovedUp
  <2>5. ProcLoads(n, h) = load BY <1>9 DEF SameButFirst, ProcLoads, load
  <2> QED BY <1>9, <2>4, <2>5 DEF ScgiOrdered
<1> QED BY <1>9, <1>10 DEF s, load, n

LEMMA InOrderFallsRises ==
    ASSUME NEW s, NEW load, NEW p, InOrder(s, load)
    PROVE  Falls(s, load, p) /\ Rises(s, load, p)
BY DEF InOrder, Falls, Rises

LEMMA ScgiSortsSame ==
    ASSUME NEW hs \in ScgiHosts, NEW h \in S!Hosts, NEW p \in S!Procs(h)
    PROVE  LET n == S!scgi_proclist_sort_down(hs, h, p) IN n \in ScgiHosts /\ ScgiSame(hs, n)
<1> DEFINE n == S!scgi_proclist_sort_down(hs, h, p)
<1>1. SameButFirst(hs, n, h) /\ (Falls(hs[h].first, ProcLoads(hs, h), p) => ScgiOrdered(n, h))
  BY ScgiSortsDown
<1> HIDE DEF n
<1>2. ProcLoads(n, h) = ProcLoads(hs, h) BY <1>1 DEF SameButFirst, ProcLoads
<1>3. ScgiOrdered(hs, h) => ScgiOrdered(n, h) BY <1>1, InOrderFallsRises DEF ScgiOrdered
<1>4. SameHost(hs, n, h) BY <1>1, <1>2, <1>3 DEF SameButFirst, SameHost
<1>5. \A g \in S!Hosts \ {h} : SameHost(hs, n, g)
  BY <1>1 DEF SameButFirst, SameHost, ScgiOrdered, ProcLoads
<1> QED BY <1>1, <1>4, <1>5 DEF ScgiSame, SameButFirst, n

-----------------------------------------------------------------------------
(***************************************************************************)
(* Processes that are started, found dead, disabled and marked.            *)
(***************************************************************************)
OneMore(hs, h, p, v) == [hs EXCEPT ![h].procs[p].state = v, ![h].active_procs = @ + 1]
OneLess(hs, h, p, v) == [hs EXCEPT ![h].procs[p].state = v, ![h].active_procs = @ - 1]
LEMMA ScgiActive ==
    ASSUME NEW hs \in ScgiHosts, NEW h \in S!Hosts, NEW p \in S!Procs(h), NEW v
    PROVE  /\ OneMore(hs, h, p, v) = InState(hs, h, p, v, hs[h].active_procs + 1)
           /\ OneLess(hs, h, p, v) = InState(hs, h, p, v, hs[h].active_procs - 1)
<1> DEFINE n == [hs EXCEPT ![h].procs[p].state = v]
           q == hs[h].procs[p]
<1>1. DOMAIN hs = S!Hosts BY ScgiReads
<1>2. n = With(hs, h, hs[h].load, hs[h].active_procs, hs[h].first,
               [hs[h].procs EXCEPT ![p] = ProcOf(v, q.load, q.is_local, q.child)])
  BY ScgiForms
<1>3. /\ OneMore(hs, h, p, v) = [n EXCEPT ![h].active_procs = n[h].active_procs + 1]
      /\ OneLess(hs, h, p, v) = [n EXCEPT ![h].active_procs = n[h].active_procs - 1]
  BY DEF OneMore, OneLess
<1>4. \A b : InState(hs, h, p, v, b) = [n EXCEPT ![h].active_procs = b] BY DEF InState
<1> HIDE DEF n
<1>5. n[h].active_procs = hs[h].active_procs BY <1>1, <1>2 DEF With, HostOf
<1> QED BY <1>3, <1>4, <1>5

LEMMA ScgiSpawns ==
    ASSUME S!SCGIAssumption, NEW hs \in ScgiHosts, NEW h \in S!Hosts, NEW p \in S!Procs(h),
           NEW result \in S!SpawnResults, hs[h].procs[p].child = "none"
    PROVE  LET n == S!scgi_spawn_connection(hs, h, p, result) IN n \in ScgiHosts /\ ScgiSame(hs, n)
<1> DEFINE e == OneMore(hs, h, p, "RUNNING")
           q == e[h].procs[p]
           used == [e EXCEPT ![h].procs[p].is_local = FALSE, ![h].procs[p].child = "none"]
           up == [e EXCEPT ![h].procs[p].is_local = TRUE, ![h].procs[p].child = S!Born(@)]
<1>0. S!scgi_spawn_connection(hs, h, p, result) =
         CASE result = "used" -> used [] result = "nofork" -> e [] result = "up" -> up
           [] result = "failed" -> hs
  BY DEF S!scgi_spawn_connection, OneMore
<1> HIDE DEF used, up
<1>1. /\ e \in ScgiHosts /\ ScgiSame(hs, e)
      /\ q.child = "none" /\ q.state = "RUNNING" /\ q.is_local \in BOOLEAN
  <2> DEFINE a == hs[h].active_procs + 1
             r == hs[h].procs[p]
  <2>1. e = InState(hs, h, p, "RUNNING", a) BY ScgiActive
  <2>2. r.is_local \in BOOLEAN /\ hs[h].active_procs \in Int BY ScgiProcReads, ScgiReads
  <2>3. a \in Int /\ a >= hs[h].active_procs + (IF "RUNNING" = "RUNNING" THEN 1 ELSE 0)
                                             - (IF r.state = "RUNNING" THEN 1 ELSE 0)
    BY <2>2
  <2> HIDE DEF a, e
  <2>4. /\ e \in ScgiHosts /\ ScgiSame(hs, e)
        /\ e[h].procs[p] = ProcOf("RUNNING", r.load, r.is_local, r.child)
    BY <2>1, <2>3, ScgiStates
  <2> QED BY <2>2, <2>4 DEF ProcOf
<1>2. CASE result = "used"
  <2> DEFINE m == [e EXCEPT ![h].procs[p].is_local = FALSE]
             n == [m EXCEPT ![h].procs[p].child = "none"]
  <2>1. S!scgi_spawn_connection(hs, h, p, result) = n BY <1>0, <1>2 DEF used
  <2> HIDE DEF e
  <2>2. m \in ScgiHosts /\ ScgiSame(e, m) BY <1>1, ScgiChildren
  <2> HIDE DEF m
  <2>3. n \in ScgiHosts /\ ScgiSame(m, n) BY <2>2, ScgiChildren
  <2> HIDE DEF n
  <2> QED BY <1>1, <2>1, <2>2, <2>3, ScgiSameTransitive
<1>3. CASE result = "nofork"
  <2>1. S!scgi_spawn_connection(hs, h, p, result) = e BY <1>0, <1>3
  <2> QED BY <1>1, <2>1
<1>4. CASE result = "up"
  <2> DEFINE m == [e EXCEPT ![h].procs[p].is_local = TRUE]
             n == [m EXCEPT ![h].procs[p].child = "alive"]
  <2>1. S!scgi_spawn_connection(hs, h, p, result) = up BY <1>0, <1>4
  <2>6. up = [m EXCEPT ![h].procs[p].child = S!Born(@)] BY ZenonT(60) DEF up
  <2> HIDE DEF e
  <2>2. m \in ScgiHosts /\ ScgiSame(e, m) /\ m[h].procs[p] = ProcOf(q.state, q.load, TRUE, q.child)
    BY <1>1, ScgiChildren
  <2> HIDE DEF m
  <2>3. m[h].procs[p].child = "none" /\ m[h].procs[p].is_local /\ m[h].procs[p].state # "DIED"
    BY ONLY <1>1, <2>2 DEF ProcOf
  <2>4. n \in ScgiHosts /\ ScgiSame(m, n) BY <2>2, <2>3, ScgiChildren
  <2>5. up = n BY <2>3, <2>6 DEF S!Born
  <2> HIDE DEF n
  <2> QED BY <1>1, <2>1, <2>2, <2>4, <2>5, ScgiSameTransitive
<1>5. CASE result = "failed" BY <1>0, <1>5, ScgiSameItself
<1> QED BY <1>2, <1>3, <1>4, <1>5 DEF S!SpawnResults

LEMMA ScgiFindsDead ==
    ASSUME S!SCGIAssumption, NEW hs \in ScgiHosts, NEW h \in S!Hosts, NEW p \in S!Procs(h)
    PROVE  LET n == S!Died(hs, h, p) IN n \in ScgiHosts /\ ScgiSame(hs, n)
<1> DEFINE q == hs[h].procs[p]
           m == [hs EXCEPT ![h].procs[p].child = "none"]
           n == [m EXCEPT ![h].procs[p].state = "DIED"]
<1>1. CASE q.is_local /\ q.state = "DIED_WAIT_FOR_PID" /\ q.child = "zombie"
  <2>1. S!Died(hs, h, p) = n BY <1>1 DEF S!Died, S!Proc, S!Waited
  <2>2. m \in ScgiHosts /\ ScgiSame(hs, m) /\ m[h].procs[p] = ProcOf(q.state, q.load, q.is_local, "none")
    BY ScgiChildren
  <2> HIDE DEF m
  <2>3. m[h].procs[p].child = "none" /\ m[h].procs[p].is_local BY <1>1, <2>2 DEF ProcOf
  <2>4. n \in ScgiHosts /\ ScgiSame(m, n) BY <2>2, <2>3, ScgiStates
  <2> HIDE DEF n
  <2> QED BY <2>1, <2>2, <2>4, ScgiSameTransitive
<1>2. CASE ~(q.is_local /\ q.state = "DIED_WAIT_FOR_PID" /\ q.child = "zombie")
  <2>1. S!Died(hs, h, p) = hs BY <1>2 DEF S!Died, S!Proc, S!Waited
  <2> QED BY <2>1, ScgiSameItself
<1> QED BY <1>1, <1>2

LEMMA ScgiRestartsOne ==
    ASSUME S!SCGIAssumption, NEW hs \in ScgiHosts, NEW h \in S!Hosts, NEW p \in S!Procs(h),
           NEW result \in S!SpawnResults, NEW due \in BOOLEAN
    PROVE  LET n == S!RestartOne(hs, h, p, result, due) IN n \in ScgiHosts /\ ScgiSame(hs, n)
<1> DEFINE q == hs[h].procs[p]
           d == S!Died(hs, h, p)
           e == OneMore(hs, h, p, "RUNNING")
           o == S!scgi_spawn_connection(d, h, p, result)
           n == S!scgi_proclist_sort_down(o, h, p)
           one == S!RestartOne(hs, h, p, result, due)
<1>1. CASE ~q.is_local
  <2>1. one = IF q.state = "DISABLED" /\ due THEN e ELSE hs
    BY <1>1 DEF S!RestartOne, S!Proc, OneMore
  <2>2. ASSUME q.state = "DISABLED" PROVE e \in ScgiHosts /\ ScgiSame(hs, e)
    <3> DEFINE a == hs[h].active_procs + 1
    <3>1. e = InState(hs, h, p, "RUNNING", a) BY ScgiActive
    <3>2. hs[h].active_procs \in Int BY ScgiReads
    <3>3. a \in Int /\ a >= hs[h].active_procs + (IF "RUNNING" = "RUNNING" THEN 1 ELSE 0)
                                               - (IF q.state = "RUNNING" THEN 1 ELSE 0)
      BY <3>2
    <3> HIDE DEF a, e
    <3> QED BY <3>1, <3>3, ScgiStates
  <2> HIDE DEF e, one
  <2> QED BY <2>1, <2>2, ScgiSameItself DEF one
<1>2. CASE q.is_local
  <2>1. one = IF S!Proc(d, h, p).state # "DIED" \/ S!Proc(d, h, p).load # 0 THEN d
              ELSE IF result = "failed" THEN d ELSE n
    BY <1>2 DEF S!RestartOne, S!Proc
  <2>2. d \in ScgiHosts /\ ScgiSame(hs, d) BY ScgiFindsDead
  <2> HIDE DEF d
  <2>3. ASSUME S!Proc(d, h, p).state = "DIED" PROVE n \in ScgiHosts /\ ScgiSame(hs, n)
    <3>1. d[h].procs[p].child = "none" BY <2>2, <2>3, ScgiProcReads DEF S!Proc
    <3>2. o \in ScgiHosts /\ ScgiSame(d, o) BY <2>2, <3>1, ScgiSpawns
    <3> HIDE DEF o
    <3>3. n \in ScgiHosts /\ ScgiSame(o, n) BY <3>2, ScgiSortsSame
    <3> HIDE DEF n
    <3> QED BY <2>2, <3>2, <3>3, ScgiSameTransitive
  <2> HIDE DEF n, one
  <2> QED BY <2>1, <2>2, <2>3 DEF one
<1> QED BY <1>1, <1>2

\* The list is walked while it is sorted: each place of it has a process.
LEMMA ScgiRestarts ==
    ASSUME S!SCGIAssumption, NEW hs \in ScgiHosts, NEW h \in S!Hosts, NEW results \in S!Results,
           NEW due \in BOOLEAN
    PROVE  LET n == S!scgi_restart_dead_procs(hs, h, results, due)
           IN  n \in ScgiHosts /\ ScgiSame(hs, n)
<1> DEFINE W == [hs : {n \in ScgiHosts : ScgiSame(hs, n)}, failed : BOOLEAN]
           first == [hs |-> hs, failed |-> FALSE]
           next(w, k) == LET s == w.hs[h].first
                             n == S!RestartOne(w.hs, h, s[k], results[s[k]], due)
                         IN  IF w.failed \/ k \notin DOMAIN s THEN w
                             ELSE [hs |-> n, failed |-> S!Proc(n, h, s[k]).state = "DIED"
                                                        /\ S!Load(n, h, s[k]) = 0]
           T == [x \in W \X (1..NProcs) |-> next(x[1], x[2])]
<1>1. NProcs \in Nat /\ S!Procs(h) \subseteq 1..NProcs BY ScgiFinite
<1>2. first \in W BY ScgiSameItself
<1>3. ASSUME NEW w \in W, NEW k \in 1..NProcs PROVE next(w, k) \in W
  <2>1. w.hs \in ScgiHosts /\ ScgiSame(hs, w.hs) OBVIOUS
  <2> DEFINE s == w.hs[h].first
  <2>2. s \in Seq(S!Procs(h)) BY <2>1, ScgiReads
  <2>3. CASE w.failed \/ k \notin DOMAIN s BY <2>3
  <2>4. CASE ~(w.failed \/ k \notin DOMAIN s)
    <3> DEFINE n == S!RestartOne(w.hs, h, s[k], results[s[k]], due)
    <3>1. s[k] \in S!Procs(h) BY <2>2, <2>4
    <3>2. results[s[k]] \in S!SpawnResults BY <1>1, <3>1 DEF S!Results
    <3>3. next(w, k) = [hs |-> n, failed |-> S!Proc(n, h, s[k]).state = "DIED"
                                             /\ S!Load(n, h, s[k]) = 0]
      BY <2>4
    <3> HIDE DEF s, next
    <3>4. n \in ScgiHosts /\ ScgiSame(w.hs, n) BY <2>1, <3>1, <3>2, ScgiRestartsOne
    <3> HIDE DEF n
    <3>5. ScgiSame(hs, n) BY <2>1, <3>4, ScgiSameTransitive
    <3> QED BY <3>3, <3>4, <3>5
  <2> QED BY <2>3, <2>4
<1> HIDE DEF W, first, next
<1>4. T \in [W \X (1..NProcs) -> W] BY <1>3
<1>5. PICK f \in [0..NProcs -> W] : Steps(f, NProcs, first, T)
  <2> HIDE DEF T
  <2> QED BY <1>1, <1>2, <1>4, StepsExist
<1>6. f = [k \in 0..NProcs |-> IF k = 0 THEN first ELSE next(f[k - 1], k)]
  <2>1. ASSUME NEW k \in 0..NProcs PROVE f[k] = IF k = 0 THEN first ELSE next(f[k - 1], k)
    <3>1. CASE k = 0 BY <1>5, <3>1 DEF Steps
    <3>2. CASE k # 0
      <4>1. k \in 1..NProcs /\ k - 1 \in 0..NProcs BY <1>1, <3>2
      <4>2. f[k] = T[<<f[k - 1], k>>] BY <1>5, <4>1 DEF Steps
      <4> QED BY <3>2, <4>1, <4>2
    <3> QED BY <3>1, <3>2
  <2> QED BY <2>1
<1> DEFINE walk == CHOOSE w : w = [k \in 0..NProcs |-> IF k = 0 THEN first ELSE next(w[k - 1], k)]
<1>7. walk = [k \in 0..NProcs |-> IF k = 0 THEN first ELSE next(walk[k - 1], k)] BY <1>6
<1>8. S!scgi_restart_dead_procs(hs, h, results, due) = walk[NProcs].hs
  BY DEF S!scgi_restart_dead_procs, first, next
<1> HIDE DEF walk, T
<1>9. walk[0] \in W BY <1>1, <1>2, <1>7
<1>10. ASSUME NEW k \in 1..NProcs, walk[k - 1] \in W PROVE walk[k] \in W
  <2>1. k \in 0..NProcs /\ k # 0 BY <1>1
  <2>2. walk[k] = next(walk[k - 1], k) BY <1>7, <2>1
  <2> QED BY <1>3, <1>10, <2>2
<1>11. walk[NProcs] \in W
  <2>1. \A k \in 0..NProcs : walk[k] \in W BY <1>1, <1>9, <1>10, StepsStay
  <2> QED BY <1>1, <2>1
<1> QED BY <1>8, <1>11 DEF W

LEMMA ScgiTriggers ==
    ASSUME S!SCGIAssumption, hosts \in ScgiHosts, S!mod_scgi_handle_trigger
    PROVE  hosts' \in ScgiHosts /\ ScgiSame(hosts, hosts')
<1> DEFINE W == {n \in ScgiHosts : ScgiSame(hosts, n)}
<1>1. NHosts \in Nat BY ScgiFinite
<1>2. PICK results \in S!Results, due \in [S!Hosts -> BOOLEAN] :
          hosts' = LET all[h \in 0..NHosts] ==
                           IF h = 0 THEN hosts
                           ELSE S!scgi_restart_dead_procs(all[h - 1], h, results, due[h])
                   IN all[NHosts]
  BY DEF S!mod_scgi_handle_trigger
<1> DEFINE next(hs, h) == S!scgi_restart_dead_procs(hs, h, results, due[h])
           T == [x \in W \X (1..NHosts) |-> next(x[1], x[2])]
           all == CHOOSE a : a = [h \in 0..NHosts |-> IF h = 0 THEN hosts ELSE next(a[h - 1], h)]
<1>3. hosts' = all[NHosts] BY <1>2
<1>4. hosts \in W BY ScgiSameItself
<1>5. ASSUME NEW hs \in W, NEW h \in 1..NHosts PROVE next(hs, h) \in W
  <2>1. h \in S!Hosts /\ due[h] \in BOOLEAN BY DEF S!Hosts
  <2>2. next(hs, h) \in ScgiHosts /\ ScgiSame(hs, next(hs, h)) BY <2>1, ScgiRestarts
  <2> HIDE DEF next
  <2> QED BY <2>2, ScgiSameTransitive
<1> HIDE DEF W, next
<1>6. T \in [W \X (1..NHosts) -> W] BY <1>5
<1>7. PICK f \in [0..NHosts -> W] : Steps(f, NHosts, hosts, T)
  <2> HIDE DEF T
  <2> QED BY <1>1, <1>4, <1>6, StepsExist
<1>8. f = [h \in 0..NHosts |-> IF h = 0 THEN hosts ELSE next(f[h - 1], h)]
  <2>1. ASSUME NEW h \in 0..NHosts PROVE f[h] = IF h = 0 THEN hosts ELSE next(f[h - 1], h)
    <3>1. CASE h = 0 BY <1>7, <3>1 DEF Steps
    <3>2. CASE h # 0
      <4>1. h \in 1..NHosts /\ h - 1 \in 0..NHosts BY <1>1, <3>2
      <4>2. f[h] = T[<<f[h - 1], h>>] BY <1>7, <4>1 DEF Steps
      <4> QED BY <3>2, <4>1, <4>2
    <3> QED BY <3>1, <3>2
  <2> QED BY <2>1
<1>9. all = [h \in 0..NHosts |-> IF h = 0 THEN hosts ELSE next(all[h - 1], h)] BY <1>8
<1> HIDE DEF all, T
<1>10. all[0] \in W BY <1>1, <1>4, <1>9
<1>11. ASSUME NEW h \in 1..NHosts, all[h - 1] \in W PROVE all[h] \in W
  <2>1. h \in 0..NHosts /\ h # 0 BY <1>1
  <2>2. all[h] = next(all[h - 1], h) BY <1>9, <2>1
  <2> QED BY <1>5, <1>11, <2>2
<1>12. all[NHosts] \in W
  <2>1. \A h \in 0..NHosts : all[h] \in W BY <1>1, <1>10, <1>11, StepsStay
  <2> QED BY <1>1, <2>1
<1> QED BY <1>3, <1>12 DEF W

-----------------------------------------------------------------------------
(***************************************************************************)
(* The requests.  A load of a process is that of its requests only while   *)
(* none of them has been reconnected: the lemmas of a step speak of how it *)
(* is after it, when "calm" can only have gone.                            *)
(***************************************************************************)
ScgiRequest ==
    [state : {"none", "again", "INIT", "CONNECT", "WRITE", "READ"}, host : S!Hosts \cup {S!None},
     proc : 0..NProcs, pid : BOOLEAN, got_proc : BOOLEAN, reconnects : 0..MaxReconnects,
     bytes_out : BOOLEAN, file_started : BOOLEAN, joblist : BOOLEAN, fdwait : BOOLEAN,
     socket : {"none", "pending", "up", "closed", "refused"}, unread : {"none", "body"}]

\* its process, if it has one, is one of its host
ScgiBoundOf(quiet) == {c \in ScgiRequest :
    /\ c.proc # S!None => c.host \in S!Hosts /\ c.proc \in S!Procs(c.host)
    /\ quiet /\ c.got_proc => c.proc # S!None}

ScgiRestOf(quiet) == {c \in ScgiBoundOf(quiet) :
    /\ c.host = S!None <=> c.state \in {"none", "again"}
    /\ c.got_proc => c.proc # S!None
    /\ c.state \in {"CONNECT", "WRITE", "READ"} => c.proc # S!None
    /\ quiet /\ c.state \in {"INIT", "CONNECT"} => ~c.got_proc}

ScgiBound == ScgiBoundOf(calm')
ScgiRest == ScgiRestOf(calm')

\* what "calm" says of the step of one request, which has come to c
Calmly(r, c) ==
    r \in Requests /\ DOMAIN hctx = Requests /\ (calm' => hctx'[r].reconnects <= c.reconnects)

\* the hosts as they are while request r is at c
HeldHost(r, hs, c, h) ==
    /\ hs[h].load >= Cardinality(Others(r, h)) + (IF c.host = h THEN 1 ELSE 0)
    /\ calm' =>
          /\ ScgiOrdered(hs, h)
          /\ \A p \in S!Procs(h) : ProcLoads(hs, h)[p] =
                Cardinality(OthersOf(r, h, p)) + (IF c.host = h /\ c.proc = p /\ c.got_proc THEN 1 ELSE 0)
Held(r, hs, c) == \A h \in S!Hosts : HeldHost(r, hs, c, h)

ScgiDone(r) ==
    /\ hosts' \in ScgiHosts
    /\ \E d \in ScgiRest : hctx' = [hctx EXCEPT ![r] = d] /\ Held(r, hosts', d)

ScgiInv ==
    /\ hosts \in ScgiHosts /\ hctx \in [Requests -> ScgiRestOf(calm)] /\ S!LoadKept /\ calm \in BOOLEAN
    /\ calm => \A h \in S!Hosts :
          /\ ScgiOrdered(hosts, h)
          /\ \A p \in S!Procs(h) : ProcLoads(hosts, h)[p] = Cardinality(S!Users(h, p))

LEMMA ScgiCardinality ==
    /\ \A A : S!Cardinality(A) = Cardinality(A)
    /\ \A A : S!IsFiniteSet(A) = IsFiniteSet(A)
BY DEF S!Cardinality, Cardinality, S!IsFiniteSet, IsFiniteSet

\* With a request taken out, and put back.
HostCounted(r, g, some) ==
    Cardinality({q \in Requests : some[q].host = g}) =
        Cardinality(Others(r, g)) + (IF some[r].host = g THEN 1 ELSE 0)
ProcCounted(r, g, some, p) ==
    Cardinality({q \in {o \in Requests : some[o].host = g} : some[q].proc = p /\ some[q].got_proc}) =
        Cardinality(OthersOf(r, g, p))
        + (IF some[r].host = g /\ some[r].proc = p /\ some[r].got_proc THEN 1 ELSE 0)

LEMMA ScgiCounts ==
    ASSUME S!SCGIAssumption, NEW r \in Requests, NEW g, NEW some,
           \A q \in Requests \ {r} : some[q] = hctx[q]
    PROVE  HostCounted(r, g, some) /\ \A p : ProcCounted(r, g, some, p)
<1>1. ASSUME NEW A \in SUBSET (Requests \ {r}), NEW B, B = A \/ B = A \cup {r}
      PROVE  Cardinality(B) = Cardinality(A) + (IF r \in B THEN 1 ELSE 0)
  BY <1>1, ScgiFinite, WithOrWithout
<1>2. Cardinality({q \in Requests : some[q].host = g}) =
         Cardinality(Others(r, g)) + (IF some[r].host = g THEN 1 ELSE 0)
  <2> DEFINE A == {q \in Requests : some[q].host = g}
  <2>1. A = Others(r, g) \/ A = Others(r, g) \cup {r} BY DEF Others
  <2>2. Others(r, g) \in SUBSET (Requests \ {r}) BY DEF Others
  <2>3. r \in A <=> some[r].host = g OBVIOUS
  <2> HIDE DEF A
  <2>4. Cardinality(A) = Cardinality(Others(r, g)) + (IF r \in A THEN 1 ELSE 0) BY <1>1, <2>1, <2>2
  <2> QED BY <2>3, <2>4 DEF A
<1>3. ASSUME NEW p
      PROVE  Cardinality({q \in {o \in Requests : some[o].host = g} : some[q].proc = p /\ some[q].got_proc}) =
                 Cardinality(OthersOf(r, g, p))
                 + (IF some[r].host = g /\ some[r].proc = p /\ some[r].got_proc THEN 1 ELSE 0)
  <2> DEFINE A == {q \in {o \in Requests : some[o].host = g} : some[q].proc = p /\ some[q].got_proc}
  <2>1. A = OthersOf(r, g, p) \/ A = OthersOf(r, g, p) \cup {r} BY DEF Others, OthersOf
  <2>2. OthersOf(r, g, p) \in SUBSET (Requests \ {r}) BY DEF Others, OthersOf
  <2>3. r \in A <=> some[r].host = g /\ some[r].proc = p /\ some[r].got_proc OBVIOUS
  <2> HIDE DEF A
  <2>4. Cardinality(A) = Cardinality(OthersOf(r, g, p)) + (IF r \in A THEN 1 ELSE 0)
    BY <1>1, <2>1, <2>2
  <2> QED BY <2>3, <2>4 DEF A
<1>4. HostCounted(r, g, some) BY ONLY <1>2 DEF HostCounted
<1>5. \A p : ProcCounted(r, g, some, p) BY ONLY <1>3 DEF ProcCounted
<1> QED BY ONLY <1>4, <1>5

LEMMA ScgiCalmer ==
    ASSUME calm' => calm
    PROVE  ScgiRestOf(calm) \subseteq ScgiRest
BY DEF ScgiRest, ScgiRestOf, ScgiBoundOf

LEMMA ScgiBegins ==
    ASSUME S!SCGIAssumption, ScgiInv, calm' => calm, NEW r \in Requests
    PROVE  Held(r, hosts, hctx[r]) /\ hctx[r] \in ScgiRest /\ DOMAIN hctx = Requests
<1>1. hctx \in [Requests -> ScgiRestOf(calm)] /\ \A q \in Requests \ {r} : hctx[q] = hctx[q] BY DEF ScgiInv
<1>2. ASSUME NEW h \in S!Hosts PROVE HeldHost(r, hosts, hctx[r], h)
  <2>1. HostCounted(r, h, hctx) /\ \A p : ProcCounted(r, h, hctx, p)
    BY <1>1, ScgiCounts
  <2>2. hosts[h].load >= Cardinality({q \in Requests : hctx[q].host = h})
    BY ScgiCardinality DEF ScgiInv, S!LoadKept, S!Holders
  <2>3. calm' =>
           /\ ScgiOrdered(hosts, h)
           /\ \A p \in S!Procs(h) : ProcLoads(hosts, h)[p] =
                 Cardinality({q \in {o \in Requests : hctx[o].host = h} :
                                  hctx[q].proc = p /\ hctx[q].got_proc})
    BY DEF ScgiInv, S!Users, S!Holders
  <2> QED BY <2>1, <2>2, <2>3 DEF HeldHost, HostCounted, ProcCounted
<1>3. hctx[r] \in ScgiRest BY <1>1, ScgiCalmer
<1> QED BY <1>1, <1>2, <1>3 DEF Held

LEMMA ScgiEnds ==
    ASSUME S!SCGIAssumption, ScgiInv, calm' => calm, calm' \in BOOLEAN, NEW r \in Requests, ScgiDone(r)
    PROVE  ScgiInv'
<1>1. PICK d \in ScgiRest : hctx' = [hctx EXCEPT ![r] = d] /\ Held(r, hosts', d) BY DEF ScgiDone
<1>2. hctx \in [Requests -> ScgiRest] BY ScgiCalmer DEF ScgiInv
<1>3. hctx' \in [Requests -> ScgiRest] /\ hctx'[r] = d /\ \A q \in Requests \ {r} : hctx'[q] = hctx[q]
  BY <1>1, <1>2
<1>4. ASSUME NEW h \in S!Hosts
      PROVE  /\ hosts'[h].load >= Cardinality({q \in Requests : hctx'[q].host = h})
             /\ calm' =>
                   /\ ScgiOrdered(hosts', h)
                   /\ \A p \in S!Procs(h) : ProcLoads(hosts', h)[p] =
                         Cardinality({q \in {o \in Requests : hctx'[o].host = h} :
                                          hctx'[q].proc = p /\ hctx'[q].got_proc})
  <2>1. HostCounted(r, h, hctx') /\ \A p : ProcCounted(r, h, hctx', p)
    BY <1>2, <1>3, ScgiCounts
  <2>2. HeldHost(r, hosts', hctx'[r], h) BY <1>1, <1>3 DEF Held
  <2> QED BY <2>1, <2>2 DEF HeldHost, HostCounted, ProcCounted
<1>5. S!LoadKept' BY <1>4, ScgiCardinality DEF S!LoadKept, S!Holders
<1>6. calm' => \A h \in S!Hosts :
         /\ ScgiOrdered(hosts', h)
         /\ \A p \in S!Procs(h) : ProcLoads(hosts', h)[p] = Cardinality(S!Users(h, p)')
  BY <1>4 DEF S!Users, S!Holders
<1>7. hosts' \in ScgiHosts BY DEF ScgiDone
<1>8. \A h : ScgiOrdered(hosts, h)' = ScgiOrdered(hosts', h) /\ ProcLoads(hosts, h)' = ProcLoads(hosts', h)
  BY DEF ScgiOrdered, ProcLoads
<1>9. hctx' \in [Requests -> ScgiRestOf(calm')] BY <1>3 DEF ScgiRest
<1> QED BY <1>5, <1>6, <1>7, <1>8, <1>9 DEF ScgiInv

LEMMA HeldSame ==
    ASSUME NEW r, NEW hs, NEW n, NEW c, NEW d, Held(r, hs, c), ScgiSame(hs, n), d.host = c.host,
           (~c.got_proc /\ ~d.got_proc) \/ (d.proc = c.proc /\ d.got_proc = c.got_proc) \/ ~calm'
    PROVE  Held(r, n, d)
<1> SUFFICES ASSUME NEW h \in S!Hosts PROVE HeldHost(r, n, d, h) BY DEF Held
<1>1. HeldHost(r, hs, c, h) /\ SameHost(hs, n, h) BY DEF Held, ScgiSame
<1> QED BY <1>1 DEF HeldHost, SameHost

-----------------------------------------------------------------------------
(***************************************************************************)
(* The loads.                                                              *)
(***************************************************************************)
LoadSet(hs, h, p, v) == [hs EXCEPT ![h].procs[p].load = v]
HostSet(hs, h, l) == [hs EXCEPT ![h].load = l]

LEMMA ScgiLoadSet ==
    ASSUME S!SCGIAssumption, NEW hs \in ScgiHosts, NEW h \in S!Hosts, NEW p \in S!Procs(h),
           NEW v \in 0..(SizeModulus - 1)
    PROVE  LET n == LoadSet(hs, h, p, v) IN
           /\ n \in ScgiHosts /\ \A g \in S!Hosts \ {h} : n[g] = hs[g]
           /\ n[h].load = hs[h].load /\ n[h].first = hs[h].first
           /\ ProcLoads(n, h) = [ProcLoads(hs, h) EXCEPT ![p] = v]
<1> DEFINE f == hs[h].procs
           q == ProcOf(f[p].state, v, f[p].is_local, f[p].child)
           g == [f EXCEPT ![p] = q]
           n == With(hs, h, hs[h].load, hs[h].active_procs, hs[h].first, g)
<1>1. /\ hs[h].load \in Int /\ hs[h].active_procs \in Int
      /\ hs[h].first \in Seq(S!Procs(h)) /\ Lists(S!Procs(h), hs[h].first)
      /\ f \in [S!Procs(h) -> ScgiProcs] /\ hs[h].active_procs >= Cardinality(Runs(f))
  BY ScgiReads
<1>2. LoadSet(hs, h, p, v) = n BY ScgiForms DEF LoadSet
<1>3. f[p] \in ScgiProcs BY <1>1
<1>4. q \in ScgiProcs BY <1>3, ScgiProcUpdates
<1>5. q.state = f[p].state /\ q.load = v BY DEF ProcOf
<1>6. IsFiniteSet(S!Procs(h)) BY ScgiFinite
<1> HIDE DEF f, q
<1>7. /\ Cardinality(Runs(f)) \in Nat
      /\ Cardinality(Runs(g)) = Cardinality(Runs(f)) + (IF q.state = "RUNNING" THEN 1 ELSE 0)
                                                     - (IF f[p].state = "RUNNING" THEN 1 ELSE 0)
  BY <1>1, <1>4, <1>6, RunsChange
<1>8. hs[h].active_procs >= Cardinality(Runs(g)) /\ g \in [S!Procs(h) -> ScgiProcs]
  BY <1>1, <1>4, <1>5, <1>7
<1>9. g[p] = q /\ \A o \in S!Procs(h) \ {p} : g[o] = f[o] BY <1>1
<1> HIDE DEF g
<1>10. /\ n \in ScgiHosts /\ \A o \in S!Hosts \ {h} : n[o] = hs[o]
       /\ n[h].load = hs[h].load /\ n[h].first = hs[h].first /\ n[h].procs = g
  <2>1. /\ hs \in ScgiHosts /\ h \in S!Hosts /\ hs[h].load \in Int /\ hs[h].active_procs \in Int
        /\ hs[h].first \in Seq(S!Procs(h)) /\ Lists(S!Procs(h), hs[h].first)
        /\ g \in [S!Procs(h) -> ScgiProcs] /\ hs[h].active_procs >= Cardinality(Runs(g))
    BY <1>1, <1>8
  <2> QED BY ONLY <2>1, ScgiWith
<1> HIDE DEF n
<1>11. ProcLoads(n, h) = [ProcLoads(hs, h) EXCEPT ![p] = v]
  <2>1. \A o \in S!Procs(h) : n[h].procs[o].load = IF o = p THEN v ELSE hs[h].procs[o].load
    BY <1>5, <1>9, <1>10 DEF f
  <2> QED BY <2>1 DEF ProcLoads
<1> QED BY <1>2, <1>10, <1>11

LEMMA ScgiHostSet ==
    ASSUME NEW hs \in ScgiHosts, NEW h \in S!Hosts, NEW l \in Int
    PROVE  LET n == HostSet(hs, h, l) IN
           /\ n \in ScgiHosts /\ \A g \in S!Hosts \ {h} : n[g] = hs[g]
           /\ n[h].load = l /\ n[h].first = hs[h].first /\ ProcLoads(n, h) = ProcLoads(hs, h)
<1> DEFINE n == With(hs, h, l, hs[h].active_procs, hs[h].first, hs[h].procs)
<1>1. /\ hs \in ScgiHosts /\ h \in S!Hosts /\ l \in Int /\ hs[h].active_procs \in Int
      /\ hs[h].first \in Seq(S!Procs(h)) /\ Lists(S!Procs(h), hs[h].first)
      /\ hs[h].procs \in [S!Procs(h) -> ScgiProcs]
      /\ hs[h].active_procs >= Cardinality(Runs(hs[h].procs))
  BY ScgiReads
<1>2. HostSet(hs, h, l) = n BY ScgiForms DEF HostSet
<1>3. /\ n \in ScgiHosts /\ \A o \in S!Hosts \ {h} : n[o] = hs[o]
      /\ n[h].load = l /\ n[h].first = hs[h].first /\ n[h].procs = hs[h].procs
  BY ONLY <1>1, ScgiWith
<1> HIDE DEF n
<1> QED BY <1>2, <1>3 DEF ProcLoads

\* a size_t, where it does not wrap around
LEMMA SizeTs ==
    ASSUME S!SCGIAssumption
    PROVE  /\ \A n \in Int : S!SizeT(n) \in 0..(SizeModulus - 1)
           /\ \A n \in 0..(SizeModulus - 1) : S!SizeT(n) = n
<1>1. SizeModulus \in Nat \ {0} BY ScgiFinite
<1>2. ASSUME NEW M \in Nat \ {0}
      PROVE  (\A n \in Int : n % M \in 0..(M - 1)) /\ \A n \in 0..(M - 1) : n % M = n
  OBVIOUS
<1> QED BY <1>1, <1>2 DEF S!SizeT

\* A host is taken.
LEMMA HeldTaken ==
    ASSUME S!SCGIAssumption, NEW r, NEW hs \in ScgiHosts, NEW h \in S!Hosts, NEW c, NEW d,
           Held(r, hs, c), c.host = S!None, d.host = h, ~d.got_proc
    PROVE  LET n == HostSet(hs, h, hs[h].load + 1) IN n \in ScgiHosts /\ Held(r, n, d)
<1> DEFINE n == HostSet(hs, h, hs[h].load + 1)
<1>1. hs[h].load \in Int BY ScgiReads
<1>2. /\ n \in ScgiHosts /\ \A g \in S!Hosts \ {h} : n[g] = hs[g]
      /\ n[h].load = hs[h].load + 1 /\ n[h].first = hs[h].first /\ ProcLoads(n, h) = ProcLoads(hs, h)
  <2>1. hs \in ScgiHosts /\ h \in S!Hosts /\ hs[h].load + 1 \in Int BY <1>1
  <2> QED BY ONLY <2>1, ScgiHostSet
<1> HIDE DEF n
<1>3. ASSUME NEW g \in S!Hosts PROVE HeldHost(r, n, d, g)
  <2>1. HeldHost(r, hs, c, g) /\ c.host # g BY ScgiFinite DEF Held
  <2>2. Cardinality(Others(r, g)) \in Nat BY ScgiFinite, OthersCounted
  <2>3. CASE g = h
    <3>1. hs[h].load >= Cardinality(Others(r, h)) + 0 BY <2>1, <2>3 DEF HeldHost
    <3>2. n[h].load >= Cardinality(Others(r, h)) + 1 BY <1>1, <1>2, <2>2, <2>3, <3>1
    <3>3. ScgiOrdered(hs, h) => ScgiOrdered(n, h) BY <1>2 DEF ScgiOrdered
    <3> QED BY <1>2, <2>1, <2>3, <3>2, <3>3 DEF HeldHost
  <2>4. CASE g # h
    <3>1. n[g] = hs[g] BY <1>2, <2>4
    <3>2. ProcLoads(n, g) = ProcLoads(hs, g) /\ (ScgiOrdered(hs, g) => ScgiOrdered(n, g))
      BY <3>1 DEF ProcLoads, ScgiOrdered
    <3> QED BY <2>1, <2>4, <3>1, <3>2 DEF HeldHost
  <2> QED BY <2>3, <2>4
<1> QED BY <1>2, <1>3 DEF Held, n

\* The same for the process and for the host, whatever happens to the load of the host.
LEMMA HeldPlaced ==
    ASSUME S!SCGIAssumption, NEW r, NEW hs \in ScgiHosts, NEW h \in S!Hosts, NEW p \in S!Procs(h),
           NEW c, NEW d, NEW n, Held(r, hs, c), c.host = h, n \in ScgiHosts,
           \A g \in S!Hosts \ {h} : n[g] = hs[g], d.host \in {h, S!None},
           n[h].load >= hs[h].load - (IF d.host = h THEN 0 ELSE 1),
           calm' =>
              /\ ScgiOrdered(n, h)
              /\ \A o \in S!Procs(h) : ProcLoads(n, h)[o] =
                    Cardinality(OthersOf(r, h, o))
                    + (IF d.host = h /\ d.proc = o /\ d.got_proc THEN 1 ELSE 0)
    PROVE  Held(r, n, d)
<1>1. ASSUME NEW g \in S!Hosts PROVE HeldHost(r, n, d, g)
  <2>1. HeldHost(r, hs, c, g) /\ d.host \in {h, S!None} /\ g # S!None BY ScgiFinite DEF Held
  <2>2. CASE g = h
    <3>1. Cardinality(Others(r, g)) \in Nat BY ScgiFinite, OthersCounted
    <3>2. hs[g].load \in Int /\ n[g].load \in Int BY ScgiReads
    <3>3. hs[g].load >= Cardinality(Others(r, g)) + 1 BY <2>1, <2>2 DEF HeldHost
    <3>4. n[g].load >= Cardinality(Others(r, g)) + (IF d.host = g THEN 1 ELSE 0)
      BY <2>2, <3>1, <3>2, <3>3
    <3> QED BY <2>2, <3>4 DEF HeldHost
  <2>3. CASE g # h
    <3>1. n[g] = hs[g] BY <2>3
    <3>2. ProcLoads(n, g) = ProcLoads(hs, g) /\ (ScgiOrdered(hs, g) => ScgiOrdered(n, g))
      BY <3>1 DEF ProcLoads, ScgiOrdered
    <3> QED BY <2>1, <2>3, <3>1, <3>2 DEF HeldHost
  <2> QED BY <2>2, <2>3
<1> QED BY <1>1 DEF Held

\* A list in order stays so but for the process whose load goes down, or up.
LEMMA OrderedFalls ==
    ASSUME NEW A, NEW s \in Seq(A), NEW load \in [A -> Int], NEW p \in A, NEW v \in Int,
           InOrder(s, load)
    PROVE  /\ v <= load[p] => Falls(s, [load EXCEPT ![p] = v], p)
           /\ v >= load[p] => Rises(s, [load EXCEPT ![p] = v], p)
<1> DEFINE l == [load EXCEPT ![p] = v]
<1>1. \A q \in A : l[q] = IF q = p THEN v ELSE load[q] OBVIOUS
<1> HIDE DEF l
<1>2. ASSUME NEW i \in 1..Len(s), NEW j \in 1..Len(s), i < j
      PROVE  /\ v <= load[p] /\ s[j] # p => l[s[i]] <= l[s[j]]
             /\ v >= load[p] /\ s[i] # p => l[s[i]] <= l[s[j]]
  <2>1. s[i] \in A /\ s[j] \in A BY <1>2
  <2>2. load[s[i]] <= load[s[j]] BY <1>2 DEF InOrder
  <2>3. load[s[i]] \in Int /\ load[s[j]] \in Int /\ load[p] \in Int BY <2>1
  <2> QED BY <1>1, <2>1, <2>2, <2>3
<1> QED BY <1>2 DEF Falls, Rises, l

\* A request leaves its process, or both the process and the host.
LEMMA HeldReleased ==
    ASSUME S!SCGIAssumption, NEW r, NEW hs \in ScgiHosts, NEW c \in ScgiBound, NEW d,
           Held(r, hs, c), d.host = S!None, ~d.got_proc
    PROVE  LET n == S!CleanedUp(hs, c) IN n \in ScgiHosts /\ Held(r, n, d)
<1> DEFINE h == c.host
           p == c.proc
           v == S!SizeT(hs[h].procs[p].load - 1)
           m == IF c.got_proc THEN LoadSet(hs, h, p, v) ELSE hs
           l == hs[h].load - 1
           k == HostSet(m, h, l)
           n == S!scgi_proclist_sort_down(k, h, p)
<1>1. CASE p = S!None
  <2>1. S!CleanedUp(hs, c) = hs BY <1>1 DEF S!CleanedUp
  <2>2. ASSUME NEW g \in S!Hosts PROVE HeldHost(r, hs, d, g)
    <3>1. HeldHost(r, hs, c, g) /\ g # S!None BY ScgiFinite DEF Held
    <3>2. Cardinality(Others(r, g)) \in Nat BY ScgiFinite, OthersCounted
    <3>3. hs[g].load \in Int BY ScgiReads
    <3>4. hs[g].load >= Cardinality(Others(r, g)) + (IF d.host = g THEN 1 ELSE 0)
      BY <3>1, <3>2, <3>3 DEF HeldHost
    <3>5. calm' => ~c.got_proc BY <1>1 DEF ScgiBound, ScgiBoundOf
    <3> QED BY <3>1, <3>4, <3>5 DEF HeldHost
  <2> QED BY <2>1, <2>2 DEF Held
<1>2. CASE p # S!None
  <2>1. h \in S!Hosts /\ p \in S!Procs(h) /\ c.got_proc \in BOOLEAN
    <3>1. c \in ScgiRequest /\ (c.proc # S!None => c.host \in S!Hosts /\ c.proc \in S!Procs(c.host))
      BY DEF ScgiBound, ScgiBoundOf
    <3> QED BY <1>2, <3>1 DEF ScgiRequest
  <2>2. hs[h].procs[p].load \in 0..(SizeModulus - 1) /\ hs[h].load \in Int
    BY <2>1, ScgiProcReads, ScgiReads
  <2>3. v \in 0..(SizeModulus - 1) /\ l \in Int BY <2>2, SizeTs
  <2>4. /\ m \in ScgiHosts /\ \A g \in S!Hosts \ {h} : m[g] = hs[g]
        /\ m[h].load = hs[h].load /\ m[h].first = hs[h].first
        /\ ProcLoads(m, h) = IF c.got_proc THEN [ProcLoads(hs, h) EXCEPT ![p] = v] ELSE ProcLoads(hs, h)
    <3> DEFINE a == LoadSet(hs, h, p, v)
    <3>1. hs \in ScgiHosts /\ h \in S!Hosts /\ p \in S!Procs(h) /\ v \in 0..(SizeModulus - 1)
      BY ZenonT(60), <2>1, <2>3
    <3>2. /\ a \in ScgiHosts /\ \A g \in S!Hosts \ {h} : a[g] = hs[g]
          /\ a[h].load = hs[h].load /\ a[h].first = hs[h].first
          /\ ProcLoads(a, h) = [ProcLoads(hs, h) EXCEPT ![p] = v]
      <4> HIDE DEF h, p, v
      <4> QED BY ONLY S!SCGIAssumption, <3>1, ScgiLoadSet
    <3> HIDE DEF a
    <3>3. m = IF c.got_proc THEN a ELSE hs BY DEF a
    <3> HIDE DEF v, m
    <3> QED BY <3>2, <3>3
  <2>5. /\ k \in ScgiHosts /\ \A g \in S!Hosts \ {h} : k[g] = m[g]
        /\ k[h].load = l /\ k[h].first = m[h].first /\ ProcLoads(k, h) = ProcLoads(m, h)
    <3>1. m \in ScgiHosts /\ h \in S!Hosts /\ l \in Int BY <2>1, <2>3, <2>4
    <3> HIDE DEF m, l, h
    <3> QED BY ONLY ZenonT(60), <3>1, ScgiHostSet
  <2>6. S!CleanedUp(hs, c) = n
    <3>1. v = S!SizeT(hs[h].procs[p].load - 1) OBVIOUS
    <3>2. S!LoadDec(hs, c) = LoadSet(hs, h, p, v) BY DEF S!LoadDec, LoadSet
    <3>3. S!CleanedUp(hs, c) = S!scgi_proclist_sort_down([m EXCEPT ![h].load = @ - 1], h, p)
      BY <1>2, <3>2 DEF S!CleanedUp
    <3>4. m[h].load - 1 = l BY <2>4
    <3>5. [m EXCEPT ![h].load = @ - 1] = [m EXCEPT ![h].load = m[h].load - 1]
      <4> HIDE DEF m, h
      <4> QED OBVIOUS
    <3>6. [m EXCEPT ![h].load = @ - 1] = k
      <4> HIDE DEF m, h, l
      <4> QED BY <3>4, <3>5 DEF HostSet
    <3> HIDE DEF m, h, l, v, k
    <3> QED BY <3>3, <3>6
  <2> HIDE DEF k, m, v
  <2>7. /\ SameButFirst(k, n, h)
        /\ Falls(k[h].first, ProcLoads(k, h), p) => ScgiOrdered(n, h)
    <3>1. k \in ScgiHosts /\ h \in S!Hosts /\ p \in S!Procs(h) BY <2>1, <2>5
    <3> QED BY ONLY <3>1, ScgiSortsDown
  <2> HIDE DEF n
  <2>8. /\ n \in ScgiHosts /\ \A g \in S!Hosts \ {h} : n[g] = hs[g]
        /\ n[h].load = hs[h].load - 1 /\ ProcLoads(n, h) = ProcLoads(m, h)
    <3>1. ProcLoads(n, h) = ProcLoads(k, h) BY <2>7 DEF SameButFirst, ProcLoads
    <3> QED BY <2>4, <2>5, <2>7, <3>1 DEF SameButFirst
  <2>9. ASSUME calm'
        PROVE  /\ ScgiOrdered(n, h)
               /\ \A o \in S!Procs(h) : ProcLoads(n, h)[o] = Cardinality(OthersOf(r, h, o))
    <3> DEFINE load == ProcLoads(hs, h)
    <3>1. /\ ScgiOrdered(hs, h)
          /\ \A o \in S!Procs(h) : load[o] =
                Cardinality(OthersOf(r, h, o)) + (IF p = o /\ c.got_proc THEN 1 ELSE 0)
      BY <2>1, <2>9 DEF Held, HeldHost
    <3>2. \A o : Cardinality(OthersOf(r, h, o)) \in Nat BY ScgiFinite, OthersCounted
    <3>3. load \in [S!Procs(h) -> Int] /\ hs[h].first \in Seq(S!Procs(h)) /\ load[p] = hs[h].procs[p].load
      BY <2>1, ScgiPlace DEF ProcLoads
    <3>4. InOrder(hs[h].first, load) BY <3>1 DEF ScgiOrdered
    <3>5. CASE c.got_proc
      <4>1. load[p] = Cardinality(OthersOf(r, h, p)) + 1 BY <2>1, <3>1, <3>5
      <4>2. load[p] - 1 \in 0..(SizeModulus - 1) /\ load[p] \in Int
        <5>1. load[p] \in 0..(SizeModulus - 1) BY <2>2, <3>3
        <5>2. load[p] >= 1 BY <3>2, <4>1
        <5>3. SizeModulus \in Nat BY ScgiFinite
        <5> HIDE DEF load
        <5> QED BY <5>1, <5>2, <5>3
      <4>3. v = load[p] - 1
        <5> DEFINE x == load[p] - 1
        <5>1. v = S!SizeT(x) BY <3>3 DEF v
        <5>2. x \in 0..(SizeModulus - 1) BY <4>2
        <5> HIDE DEF x
        <5>3. S!SizeT(x) = x BY <5>2, SizeTs
        <5> QED BY <5>1, <5>3 DEF x
      <4>4. v \in Int /\ v <= load[p] BY <4>2, <4>3
      <4> HIDE DEF load
      <4>5. Falls(hs[h].first, [load EXCEPT ![p] = v], p)
        <5>1. /\ hs[h].first \in Seq(S!Procs(h)) /\ load \in [S!Procs(h) -> Int]
              /\ p \in S!Procs(h) /\ v \in Int /\ InOrder(hs[h].first, load) /\ v <= load[p]
          BY <2>1, <3>3, <3>4, <4>4
        <5> QED BY ONLY <5>1, OrderedFalls
      <4>6. ProcLoads(n, h) = [load EXCEPT ![p] = v] BY <2>4, <2>8, <3>5 DEF load
      <4>7. ScgiOrdered(n, h) BY <2>4, <2>5, <2>7, <3>5, <4>5 DEF load
      <4>8. ASSUME NEW o \in S!Procs(h) PROVE ProcLoads(n, h)[o] = Cardinality(OthersOf(r, h, o))
        <5>1. ProcLoads(n, h)[o] = IF o = p THEN load[p] - 1 ELSE load[o] BY <3>3, <4>3, <4>6
        <5>2. load[o] = Cardinality(OthersOf(r, h, o)) + (IF p = o /\ c.got_proc THEN 1 ELSE 0) BY <3>1
        <5> QED BY <3>2, <3>5, <5>1, <5>2
      <4> QED BY <4>7, <4>8
    <3>6. CASE ~c.got_proc
      <4>1. ProcLoads(n, h) = load BY <2>4, <2>8, <3>6
      <4>2. Falls(hs[h].first, load, p) BY <3>4, InOrderFallsRises
      <4>3. ScgiOrdered(n, h) BY <2>4, <2>5, <2>7, <3>6, <4>2
      <4>4. ASSUME NEW o \in S!Procs(h) PROVE load[o] = Cardinality(OthersOf(r, h, o))
        BY <3>1, <3>2, <3>6
      <4> QED BY <4>1, <4>3, <4>4
    <3> QED BY <2>1, <3>5, <3>6
  <2>10. Held(r, n, d)
    <3>1. d.host # h BY <2>1, ScgiFinite
    <3>2. n[h].load >= hs[h].load - (IF d.host = h THEN 0 ELSE 1) BY <2>2, <2>8, <3>1
    <3>3. calm' =>
              /\ ScgiOrdered(n, h)
              /\ \A o \in S!Procs(h) : ProcLoads(n, h)[o] =
                    Cardinality(OthersOf(r, h, o))
                    + (IF d.host = h /\ d.proc = o /\ d.got_proc THEN 1 ELSE 0)
      <4>1. \A o : Cardinality(OthersOf(r, h, o)) \in Nat BY ScgiFinite, OthersCounted
      <4> QED BY <2>9, <4>1
    <3>4. c.host = h OBVIOUS
    <3> HIDE DEF h, p
    <3> QED BY <2>1, <2>8, <3>2, <3>3, <3>4, HeldPlaced
  <2> QED BY <2>6, <2>8, <2>10
<1> QED BY <1>1, <1>2
\* A request gets its process, or is sent back with the load of it.
GotLoad(hs, c) == LoadSet(hs, c.host, c.proc, S!SizeT(hs[c.host].procs[c.proc].load + 1))

LEMMA OthersFewer ==
    ASSUME S!SCGIAssumption, NEW r \in Requests, NEW h, NEW p
    PROVE  Cardinality(OthersOf(r, h, p)) + 1 <= Cardinality(Requests)
<1>1. IsFiniteSet(Requests) BY ScgiFinite
<1>2. IsFiniteSet(Requests \ {r}) /\ Cardinality(Requests \ {r}) = Cardinality(Requests) - 1
  BY <1>1, FS_RemoveElement
<1>3. OthersOf(r, h, p) \subseteq Requests \ {r} BY DEF Others, OthersOf
<1>4. Cardinality(OthersOf(r, h, p)) <= Cardinality(Requests \ {r}) BY <1>2, <1>3, FS_Subset
<1>5. Cardinality(OthersOf(r, h, p)) \in Nat BY <1>1, OthersCounted
<1>6. Cardinality(Requests) \in Nat BY <1>1, FS_CardinalityType
<1> QED BY <1>2, <1>4, <1>5, <1>6

LEMMA HeldGot ==
    ASSUME S!SCGIAssumption, NEW r \in Requests, NEW hs \in ScgiHosts, NEW c \in ScgiBound, NEW d,
           Held(r, hs, c), c.proc # S!None, calm' => ~c.got_proc,
           d.host = c.host, d.proc = c.proc, d.got_proc
    PROVE  LET n == S!scgi_proclist_sort_up(GotLoad(hs, c), c.host, c.proc)
           IN  n \in ScgiHosts /\ Held(r, n, d)
<1> DEFINE h == c.host
           p == c.proc
           x == hs[h].procs[p].load + 1
           v == S!SizeT(x)
           m == GotLoad(hs, c)
           n == S!scgi_proclist_sort_up(m, h, p)
           load == ProcLoads(hs, h)
<1>1. h \in S!Hosts /\ p \in S!Procs(h) BY DEF ScgiBound, ScgiBoundOf
<1>2. /\ hs[h].procs[p].load \in 0..(SizeModulus - 1) /\ hs[h].load \in Int
      /\ load \in [S!Procs(h) -> Int] /\ hs[h].first \in Seq(S!Procs(h))
      /\ load[p] = hs[h].procs[p].load
  BY <1>1, ScgiProcReads, ScgiReads, ScgiPlace DEF ProcLoads
<1>3. v \in 0..(SizeModulus - 1)
  <2>1. x \in Int BY ONLY <1>2
  <2> HIDE DEF x
  <2> QED BY ONLY <2>1, S!SCGIAssumption, SizeTs
<1>4. /\ m \in ScgiHosts /\ \A g \in S!Hosts \ {h} : m[g] = hs[g]
      /\ m[h].load = hs[h].load /\ m[h].first = hs[h].first
      /\ ProcLoads(m, h) = [load EXCEPT ![p] = v]
  <2>1. hs \in ScgiHosts /\ h \in S!Hosts /\ p \in S!Procs(h) /\ v \in 0..(SizeModulus - 1)
    BY <1>1, <1>3
  <2>2. m = LoadSet(hs, h, p, v) BY DEF GotLoad
  <2> HIDE DEF m, v, h, p
  <2> QED BY ONLY S!SCGIAssumption, <2>1, <2>2, ScgiLoadSet DEF load
<1> HIDE DEF m, v
<1>5. SameButFirst(m, n, h) /\ (Rises(m[h].first, ProcLoads(m, h), p) => ScgiOrdered(n, h))
  <2>1. m \in ScgiHosts /\ h \in S!Hosts /\ p \in S!Procs(h) BY <1>1, <1>4
  <2> QED BY ONLY <2>1, ScgiSortsUp
<1> HIDE DEF n
<1>6. /\ n \in ScgiHosts /\ \A g \in S!Hosts \ {h} : n[g] = hs[g]
      /\ n[h].load = hs[h].load /\ ProcLoads(n, h) = [load EXCEPT ![p] = v]
  <2>1. ProcLoads(n, h) = ProcLoads(m, h) BY <1>5 DEF SameButFirst, ProcLoads
  <2> HIDE DEF load
  <2> QED BY <1>4, <1>5, <2>1 DEF SameButFirst
<1>7. ASSUME calm'
      PROVE  /\ ScgiOrdered(n, h)
             /\ \A o \in S!Procs(h) : ProcLoads(n, h)[o] =
                   Cardinality(OthersOf(r, h, o)) + (IF o = p THEN 1 ELSE 0)
  <2>1. ScgiOrdered(hs, h) /\ \A o \in S!Procs(h) : load[o] = Cardinality(OthersOf(r, h, o)) + 0
    BY <1>1, <1>7 DEF Held, HeldHost
  <2>2. \A o : Cardinality(OthersOf(r, h, o)) \in Nat BY ScgiFinite, OthersCounted
  <2>3. InOrder(hs[h].first, load) BY <2>1 DEF ScgiOrdered
  <2> HIDE DEF load
  <2>4. x \in 0..(SizeModulus - 1) /\ x = load[p] + 1 /\ x = Cardinality(OthersOf(r, h, p)) + 1
    <3>1. x = load[p] + 1 BY <1>2
    <3>2. load[p] = Cardinality(OthersOf(r, h, p)) BY <1>1, <2>1, <2>2
    <3>3. Cardinality(OthersOf(r, h, p)) + 1 <= Cardinality(Requests) BY OthersFewer
    <3>4. Cardinality(Requests) < SizeModulus /\ SizeModulus \in Nat /\ Cardinality(Requests) \in Nat
      BY ScgiFinite, FS_CardinalityType
    <3>5. Cardinality(OthersOf(r, h, p)) \in Nat BY <2>2
    <3> HIDE DEF x
    <3> QED BY <3>1, <3>2, <3>3, <3>4, <3>5
  <2> HIDE DEF x
  <2>5. v = x
    <3>1. S!SizeT(x) = x BY <2>4, SizeTs
    <3> QED BY <3>1 DEF v
  <2>6. v \in Int /\ v >= load[p] BY <1>1, <1>2, <2>4, <2>5
  <2>7. Rises(hs[h].first, [load EXCEPT ![p] = v], p)
    <3>1. /\ hs[h].first \in Seq(S!Procs(h)) /\ load \in [S!Procs(h) -> Int]
          /\ p \in S!Procs(h) /\ v \in Int /\ InOrder(hs[h].first, load) /\ v >= load[p]
      BY <1>1, <1>2, <2>3, <2>6
    <3> QED BY ONLY <3>1, OrderedFalls
  <2>8. ScgiOrdered(n, h) BY <1>4, <1>5, <2>7
  <2>9. ASSUME NEW o \in S!Procs(h)
        PROVE  ProcLoads(n, h)[o] = Cardinality(OthersOf(r, h, o)) + (IF o = p THEN 1 ELSE 0)
    <3>1. ProcLoads(n, h)[o] = IF o = p THEN v ELSE load[o] BY <1>2, <1>6
    <3> QED BY <2>1, <2>2, <2>4, <2>5, <3>1
  <2> QED BY <2>8, <2>9
<1>8. Held(r, n, d)
  <2>1. n[h].load >= hs[h].load - (IF d.host = h THEN 0 ELSE 1) BY <1>2, <1>6
  <2>2. calm' =>
            /\ ScgiOrdered(n, h)
            /\ \A o \in S!Procs(h) : ProcLoads(n, h)[o] =
                  Cardinality(OthersOf(r, h, o))
                  + (IF d.host = h /\ d.proc = o /\ d.got_proc THEN 1 ELSE 0)
    BY <1>7
  <2>3. c.host = h /\ d.host \in {h, S!None} OBVIOUS
  <2> HIDE DEF h, p
  <2> QED BY ZenonT(60), <1>1, <1>6, <2>1, <2>2, <2>3, HeldPlaced
<1> QED BY <1>6, <1>8 DEF n, m

LEMMA HeldReconnected ==
    ASSUME S!SCGIAssumption, NEW r, NEW hs \in ScgiHosts, NEW c \in ScgiBound, NEW d,
           Held(r, hs, c), c.proc # S!None, ~calm', d.host = c.host
    PROVE  LET n == S!scgi_proclist_sort_down(S!LoadBack(hs, c), c.host, c.proc)
           IN  n \in ScgiHosts /\ Held(r, n, d)
<1> DEFINE h == c.host
           p == c.proc
           v == S!SizeT(hs[h].procs[p].load - 1)
           m == S!LoadBack(hs, c)
           n == S!scgi_proclist_sort_down(m, h, p)
<1>1. h \in S!Hosts /\ p \in S!Procs(h) BY DEF ScgiBound, ScgiBoundOf
<1>2. hs[h].procs[p].load \in 0..(SizeModulus - 1) /\ hs[h].load \in Int BY <1>1, ScgiProcReads, ScgiReads
<1>3. v \in 0..(SizeModulus - 1) BY <1>2, SizeTs
<1>4. m \in ScgiHosts /\ (\A g \in S!Hosts \ {h} : m[g] = hs[g]) /\ m[h].load = hs[h].load
  <2>1. hs \in ScgiHosts /\ h \in S!Hosts /\ p \in S!Procs(h) /\ v \in 0..(SizeModulus - 1)
    BY <1>1, <1>3
  <2>2. m = LoadSet(hs, h, p, v) BY DEF LoadSet, S!LoadBack, S!LoadDec
  <2> HIDE DEF m, v, h, p
  <2> QED BY ONLY S!SCGIAssumption, <2>1, <2>2, ScgiLoadSet
<1> HIDE DEF m, v
<1>5. SameButFirst(m, n, h)
  <2>1. m \in ScgiHosts /\ h \in S!Hosts /\ p \in S!Procs(h) BY <1>1, <1>4
  <2> QED BY ONLY <2>1, ScgiSortsDown
<1> HIDE DEF n
<1>6. n \in ScgiHosts /\ (\A g \in S!Hosts \ {h} : n[g] = hs[g]) /\ n[h].load = hs[h].load
  BY <1>4, <1>5 DEF SameButFirst
<1>7. Held(r, n, d)
  <2>1. n[h].load >= hs[h].load - (IF d.host = h THEN 0 ELSE 1) BY <1>2, <1>6
  <2>2. c.host = h /\ d.host \in {h, S!None} OBVIOUS
  <2> HIDE DEF h, p
  <2> QED BY <1>1, <1>6, <2>1, <2>2, HeldPlaced
<1> QED BY <1>6, <1>7 DEF n, m
-----------------------------------------------------------------------------
(***************************************************************************)
(* What becomes of a request.                                              *)
(***************************************************************************)
LEMMA ScgiUpdates ==
    \A c \in ScgiRequest :
        /\ \A x \in {"none", "again", "INIT", "CONNECT", "WRITE", "READ"} : [c EXCEPT !.state = x] \in ScgiRequest
        /\ \A x \in S!Hosts \cup {S!None} : [c EXCEPT !.host = x] \in ScgiRequest
        /\ \A x \in 0..NProcs : [c EXCEPT !.proc = x] \in ScgiRequest
        /\ \A x \in BOOLEAN : [c EXCEPT !.pid = x] \in ScgiRequest
        /\ \A x \in BOOLEAN : [c EXCEPT !.got_proc = x] \in ScgiRequest
        /\ \A x \in 0..MaxReconnects : [c EXCEPT !.reconnects = x] \in ScgiRequest
        /\ \A x \in BOOLEAN : [c EXCEPT !.bytes_out = x] \in ScgiRequest
        /\ \A x \in BOOLEAN : [c EXCEPT !.file_started = x] \in ScgiRequest
        /\ \A x \in BOOLEAN : [c EXCEPT !.joblist = x] \in ScgiRequest
        /\ \A x \in BOOLEAN : [c EXCEPT !.fdwait = x] \in ScgiRequest
        /\ \A x \in {"none", "pending", "up", "closed", "refused"} : [c EXCEPT !.socket = x] \in ScgiRequest
        /\ \A x \in {"none", "body"} : [c EXCEPT !.unread = x] \in ScgiRequest
<1> TAKE c \in ScgiRequest
<1>1. \A x \in {"none", "again", "INIT", "CONNECT", "WRITE", "READ"} : [c EXCEPT !.state = x] \in ScgiRequest
  BY DEF ScgiRequest
<1>2. \A x \in S!Hosts \cup {S!None} : [c EXCEPT !.host = x] \in ScgiRequest BY DEF ScgiRequest
<1>3. \A x \in 0..NProcs : [c EXCEPT !.proc = x] \in ScgiRequest BY DEF ScgiRequest
<1>4. \A x \in BOOLEAN : [c EXCEPT !.pid = x] \in ScgiRequest BY DEF ScgiRequest
<1>5. \A x \in BOOLEAN : [c EXCEPT !.got_proc = x] \in ScgiRequest BY DEF ScgiRequest
<1>6. \A x \in 0..MaxReconnects : [c EXCEPT !.reconnects = x] \in ScgiRequest BY DEF ScgiRequest
<1>7. \A x \in BOOLEAN : [c EXCEPT !.bytes_out = x] \in ScgiRequest BY DEF ScgiRequest
<1>8. \A x \in BOOLEAN : [c EXCEPT !.file_started = x] \in ScgiRequest BY DEF ScgiRequest
<1>9. \A x \in BOOLEAN : [c EXCEPT !.joblist = x] \in ScgiRequest BY DEF ScgiRequest
<1>10. \A x \in BOOLEAN : [c EXCEPT !.fdwait = x] \in ScgiRequest BY DEF ScgiRequest
<1>11. \A x \in {"none", "pending", "up", "closed", "refused"} : [c EXCEPT !.socket = x] \in ScgiRequest
  BY DEF ScgiRequest
<1>12. \A x \in {"none", "body"} : [c EXCEPT !.unread = x] \in ScgiRequest BY DEF ScgiRequest
<1> QED BY <1>1, <1>2, <1>3, <1>4, <1>5, <1>6, <1>7, <1>8, <1>9, <1>10, <1>11, <1>12

\* what decides of a request where it stands
SameScgi(d, c) ==
    /\ d.host = c.host /\ d.proc = c.proc /\ d.got_proc = c.got_proc /\ d.state = c.state
    /\ d.reconnects = c.reconnects

LEMMA ScgiRests ==
    ASSUME NEW c, NEW d \in ScgiRequest, SameScgi(d, c)
    PROVE  (c \in ScgiRest => d \in ScgiRest) /\ (c \in ScgiBound => d \in ScgiBound)
<1>1. c \in ScgiBound => d \in ScgiBound BY DEF SameScgi, ScgiBound, ScgiBoundOf
<1> QED BY <1>1 DEF SameScgi, ScgiRest, ScgiRestOf, ScgiBound

LEMMA ScgiIdle ==
    ASSUME S!SCGIAssumption
    PROVE  /\ S!Idle \in ScgiRest /\ S!Idle.host = S!None /\ ~S!Idle.got_proc /\ S!Idle \in ScgiRequest
           /\ \A b \in BOOLEAN :
                 LET d == [S!Idle EXCEPT !.state = "again", !.joblist = TRUE, !.fdwait = b]
                 IN  d \in ScgiRest /\ d.host = S!None /\ ~d.got_proc
           /\ S!Idle \in ScgiRestOf(calm)
<1>1. 0 \in 0..NProcs /\ 0 \in 0..MaxReconnects BY ScgiFinite
<1>2. S!Idle \in ScgiRequest BY <1>1 DEF S!Idle, ScgiRequest, S!None
<1>3. S!Idle.host = S!None /\ ~S!Idle.got_proc /\ S!Idle.proc = S!None /\ S!Idle.state = "none"
  BY DEF S!Idle
<1>4. ASSUME NEW d \in ScgiRequest, d.host = S!None, ~d.got_proc, d.proc = S!None, d.state \in {"none", "again"}
      PROVE  d \in ScgiRest /\ d \in ScgiRestOf(calm)
  BY <1>4 DEF ScgiRest, ScgiRestOf, ScgiBoundOf
<1>5. ASSUME NEW b \in BOOLEAN
      PROVE  LET d == [S!Idle EXCEPT !.state = "again", !.joblist = TRUE, !.fdwait = b]
             IN  d \in ScgiRest /\ d.host = S!None /\ ~d.got_proc
  <2> DEFINE i == S!Idle
             d == [i EXCEPT !.state = "again", !.joblist = TRUE, !.fdwait = b]
  <2>1. i \in ScgiRequest /\ i.host = S!None /\ ~i.got_proc /\ i.proc = S!None BY <1>2, <1>3
  <2> HIDE DEF i
  <2>2. d \in ScgiRequest /\ d.host = S!None /\ ~d.got_proc /\ d.proc = S!None /\ d.state = "again"
    BY <2>1 DEF ScgiRequest
  <2> HIDE DEF d
  <2>3. d \in ScgiRest BY <1>4, <2>2
  <2> QED BY <2>2, <2>3 DEF d, i
<1>7. S!Idle \in ScgiRest /\ S!Idle \in ScgiRestOf(calm) BY <1>2, <1>3, <1>4
<1> QED BY <1>2, <1>3, <1>5, <1>7

LEMMA ScgiCloses ==
    ASSUME S!SCGIAssumption, NEW r, NEW hs \in ScgiHosts, NEW c \in ScgiBound,
           Held(r, hs, c), S!Close(r, hs, c)
    PROVE  ScgiDone(r)
<1>1. S!Idle \in ScgiRest /\ S!Idle.host = S!None /\ ~S!Idle.got_proc BY ScgiIdle
<1>2. S!CleanedUp(hs, c) \in ScgiHosts /\ Held(r, S!CleanedUp(hs, c), S!Idle) BY <1>1, HeldReleased
<1> QED BY <1>1, <1>2 DEF S!Close, ScgiDone

LEMMA ScgiSets ==
    ASSUME NEW r, NEW hs \in ScgiHosts, NEW d \in ScgiRest, Held(r, hs, d), S!Set(r, hs, d)
    PROVE  ScgiDone(r)
BY DEF S!Set, ScgiDone

\* A process that is disabled, or marked: no load changes.
LEMMA ScgiDisables ==
    ASSUME S!SCGIAssumption, NEW hs \in ScgiHosts, NEW c \in ScgiBound
    PROVE  /\ LET n == S!Disabled(hs, c) IN n \in ScgiHosts /\ ScgiSame(hs, n)
           /\ LET n == S!Marked(hs, c) IN n \in ScgiHosts /\ ScgiSame(hs, n)
<1> DEFINE h == c.host
           p == c.proc
           q == hs[h].procs[p]
           e == OneLess(hs, h, p, "DISABLED")
           m == [hs EXCEPT ![h].procs[p].state = "DIED_WAIT_FOR_PID"]
<1>1. p # S!None => h \in S!Hosts /\ p \in S!Procs(h) BY DEF ScgiBound, ScgiBoundOf
<1>2. ScgiSame(hs, hs) BY ScgiSameItself
<1>3. S!Disabled(hs, c) = IF p = S!None \/ q.is_local \/ q.state = "DISABLED" THEN hs ELSE e
  BY DEF S!Disabled, S!Proc, OneLess
<1>4. S!Marked(hs, c) = IF p # S!None /\ q.is_local /\ q.state = "RUNNING" /\ c.pid THEN m ELSE hs
  BY DEF S!Marked, S!Proc
<1>5. ASSUME p # S!None, ~q.is_local, q.state # "DISABLED" PROVE e \in ScgiHosts /\ ScgiSame(hs, e)
  <2> DEFINE a == hs[h].active_procs - 1
             v == "DISABLED"
  <2>1. e = InState(hs, h, p, v, a) BY <1>1, <1>5, ScgiActive
  <2>2. hs[h].active_procs \in Int BY <1>1, <1>5, ScgiReads
  <2>3. q.state = "RUNNING" BY <1>1, <1>5, ScgiProcReads
  <2>4. a \in Int /\ a >= hs[h].active_procs + (IF v = "RUNNING" THEN 1 ELSE 0)
                                             - (IF q.state = "RUNNING" THEN 1 ELSE 0)
    BY <2>2, <2>3
  <2> HIDE DEF a, e
  <2> QED BY <1>1, <1>5, <2>1, <2>4, ScgiStates
<1>6. ASSUME p # S!None, q.is_local PROVE m \in ScgiHosts /\ ScgiSame(hs, m)
  <2>1. h \in S!Hosts /\ p \in S!Procs(h) BY <1>1, <1>6
  <2> HIDE DEF h, p
  <2> QED BY <1>6, <2>1, ScgiStates
<1> HIDE DEF e, m
<1> QED BY <1>2, <1>3, <1>4, <1>5, <1>6

LEMMA ScgiFails ==
    ASSUME S!SCGIAssumption, NEW r, NEW hs \in ScgiHosts, NEW c \in ScgiBound,
           Held(r, hs, c), S!Failed(r, hs, c)
    PROVE  ScgiDone(r)
<1> DEFINE n == S!Disabled(hs, c)
<1>1. n \in ScgiHosts /\ ScgiSame(hs, n) BY ScgiDisables
<1>2. S!Close(r, n, c) BY DEF S!Failed
<1> HIDE DEF n
<1>3. Held(r, n, c) BY <1>1, HeldSame
<1> QED BY <1>1, <1>2, <1>3, ScgiCloses

LEMMA ScgiRefuses ==
    ASSUME S!SCGIAssumption, NEW r, NEW hs \in ScgiHosts, NEW c \in ScgiBound, c.host \in S!Hosts,
           Held(r, hs, c), NEW fdwait \in BOOLEAN, S!Refused(r, hs, c, fdwait)
    PROVE  ScgiDone(r)
<1> DEFINE d == [S!Idle EXCEPT !.state = "again", !.joblist = TRUE, !.fdwait = fdwait]
           e == S!Disabled(hs, c)
           m == S!Marked(e, c)
<1>1. PICK results \in S!Results :
          /\ hosts' = S!CleanedUp(S!scgi_restart_dead_procs(m, c.host, results, FALSE), c)
          /\ hctx' = [hctx EXCEPT ![r] = d]
  BY DEF S!Refused
<1> DEFINE n == S!scgi_restart_dead_procs(m, c.host, results, FALSE)
<1>2. d \in ScgiRest /\ d.host = S!None /\ ~d.got_proc BY ScgiIdle
<1> HIDE DEF d
<1>3. e \in ScgiHosts /\ ScgiSame(hs, e) BY ScgiDisables
<1> HIDE DEF e
<1>4. m \in ScgiHosts /\ ScgiSame(e, m) BY <1>3, ScgiDisables
<1> HIDE DEF m
<1>5. n \in ScgiHosts /\ ScgiSame(m, n) BY <1>4, ScgiRestarts
<1>6. hosts' = S!CleanedUp(n, c) BY <1>1
<1> HIDE DEF n
<1>7. ScgiSame(hs, n) BY <1>3, <1>4, <1>5, ScgiSameTransitive
<1>8. Held(r, n, c) BY <1>7, HeldSame
<1>9. hosts' \in ScgiHosts /\ Held(r, hosts', d) BY <1>2, <1>5, <1>6, <1>8, HeldReleased
<1> QED BY <1>1, <1>2, <1>9 DEF ScgiDone

LEMMA ScgiReconnects ==
    ASSUME S!SCGIAssumption, NEW r, NEW hs \in ScgiHosts, NEW c \in ScgiBound, c.proc # S!None,
           c.reconnects < MaxReconnects, Held(r, hs, c), NEW fdwait \in BOOLEAN, Calmly(r, c),
           S!scgi_reconnect(r, hs, c, fdwait)
    PROVE  ScgiDone(r)
<1> DEFINE x == c.reconnects + 1
           d == [c EXCEPT !.state = "INIT", !.reconnects = x, !.fdwait = fdwait, !.socket = "none"]
           n == S!scgi_proclist_sort_down(S!LoadBack(hs, c), c.host, c.proc)
<1>1. c \in ScgiRequest /\ c.host \in S!Hosts BY DEF ScgiBound, ScgiBoundOf
<1>2. MaxReconnects \in Nat /\ c.reconnects \in 0..MaxReconnects BY <1>1, ScgiFinite DEF ScgiRequest
<1>3. x \in 0..MaxReconnects /\ ~(x <= c.reconnects) BY <1>2
<1>4. hosts' = n /\ hctx' = [hctx EXCEPT ![r] = d] BY DEF S!scgi_reconnect
<1> HIDE DEF x
<1>5. /\ d \in ScgiRequest /\ d.host = c.host /\ d.proc = c.proc /\ d.got_proc = c.got_proc
      /\ d.state = "INIT" /\ d.reconnects = x
  BY <1>1, <1>3 DEF ScgiRequest
<1> HIDE DEF d
<1>9. ~calm'
  <2>1. hctx'[r] = d BY <1>4 DEF Calmly
  <2> QED BY <1>3, <1>5, <2>1 DEF Calmly
<1>6. d \in ScgiBound BY <1>5 DEF ScgiBound, ScgiBoundOf
<1>7. d \in ScgiRest BY <1>1, <1>9, <1>5, <1>6, ScgiFinite DEF ScgiRest, ScgiRestOf, ScgiBound
<1>8. n \in ScgiHosts /\ Held(r, n, d) BY <1>5, <1>9, HeldReconnected
<1> HIDE DEF n
<1> QED BY <1>4, <1>7, <1>8 DEF ScgiDone
LEMMA ScgiWrites ==
    ASSUME S!SCGIAssumption, NEW r, NEW hs \in ScgiHosts, NEW c \in ScgiBound, c.proc # S!None,
           Held(r, hs, c), NEW fdwait \in BOOLEAN, Calmly(r, c), S!Write(r, hs, c, fdwait)
    PROVE  ScgiDone(r)
<1>1. c \in ScgiRequest /\ c.host \in S!Hosts /\ c.host # S!None BY ScgiFinite DEF ScgiBound, ScgiBoundOf
<1>2. ASSUME NEW d \in ScgiRequest, d.host = c.host, d.proc = c.proc, d.got_proc = c.got_proc,
             d.state \in {"READ", "WRITE"}, S!Set(r, hs, d)
      PROVE  ScgiDone(r)
  <2>1. d \in ScgiBound BY <1>2 DEF ScgiBound, ScgiBoundOf
  <2>2. d \in ScgiRest BY <1>1, <1>2, <2>1 DEF ScgiRest, ScgiRestOf, ScgiBound
  <2>3. Held(r, hs, d) BY <1>2, ScgiSameItself, HeldSame
  <2> QED BY <1>2, <2>2, <2>3, ScgiSets
<1>3. ASSUME NEW s \in {"READ", "WRITE"}, S!Set(r, hs, [c EXCEPT !.state = s, !.bytes_out = TRUE])
      PROVE  ScgiDone(r)
  <2> DEFINE d == [c EXCEPT !.state = s, !.bytes_out = TRUE]
  <2>1. d \in ScgiRequest /\ d.host = c.host /\ d.proc = c.proc /\ d.got_proc = c.got_proc /\ d.state = s
    BY <1>1 DEF ScgiRequest
  <2>2. S!Set(r, hs, d) BY <1>3
  <2> HIDE DEF d
  <2> QED BY <1>2, <2>1, <2>2
<1>4. ASSUME S!Set(r, hs, [c EXCEPT !.state = "WRITE"]) PROVE ScgiDone(r)
  <2> DEFINE d == [c EXCEPT !.state = "WRITE"]
  <2>1. d \in ScgiRequest /\ d.host = c.host /\ d.proc = c.proc /\ d.got_proc = c.got_proc /\ d.state = "WRITE"
    BY <1>1 DEF ScgiRequest
  <2>2. S!Set(r, hs, d) BY <1>4
  <2> HIDE DEF d
  <2> QED BY <1>2, <2>1, <2>2
<1>5. ASSUME c.reconnects < MaxReconnects, S!scgi_reconnect(r, hs, c, fdwait) PROVE ScgiDone(r)
  BY <1>5, ScgiReconnects
<1>6. ASSUME S!Failed(r, hs, c) PROVE ScgiDone(r) BY <1>6, ScgiFails
<1> QED BY <1>3, <1>4, <1>5, <1>6 DEF S!Write

LEMMA ScgiGets ==
    ASSUME S!SCGIAssumption, NEW r \in Requests, NEW hs \in ScgiHosts, NEW c \in ScgiBound,
           c.proc # S!None, calm' => ~c.got_proc,
           Held(r, hs, c), NEW fdwait \in BOOLEAN, Calmly(r, c), S!GotProc(r, hs, c, fdwait)
    PROVE  ScgiDone(r)
<1> DEFINE n == S!scgi_proclist_sort_up(GotLoad(hs, c), c.host, c.proc)
           d == [c EXCEPT !.got_proc = TRUE]
<1>1. S!Write(r, n, d, fdwait) BY DEF S!GotProc, GotLoad, LoadSet
<1>2. c \in ScgiRequest BY DEF ScgiBound, ScgiBoundOf
<1>3. /\ d \in ScgiRequest /\ d.host = c.host /\ d.proc = c.proc /\ d.got_proc
      /\ d.reconnects = c.reconnects
  BY <1>2 DEF ScgiRequest
<1>6. Calmly(r, d) BY <1>3 DEF Calmly
<1> HIDE DEF d
<1>4. d \in ScgiBound BY <1>3 DEF ScgiBound, ScgiBoundOf
<1>5. n \in ScgiHosts /\ Held(r, n, d) BY <1>3, HeldGot
<1> HIDE DEF n
<1> QED BY <1>1, <1>3, <1>4, <1>5, <1>6, ScgiWrites

LEMMA ScgiChoice ==
    ASSUME NEW hs \in ScgiHosts, NEW h \in S!Hosts
    PROVE  S!FirstRunning(hs, h) = S!None \/ S!FirstRunning(hs, h) \in S!Procs(h)
<1> DEFINE s == hs[h].first
           run == {k \in DOMAIN s : S!Proc(hs, h, s[k]).state = "RUNNING"}
           k == CHOOSE k \in run : \A m \in run : k <= m
<1>1. s \in Seq(S!Procs(h)) BY ScgiReads
<1>2. S!FirstRunning(hs, h) = IF run = {} THEN S!None ELSE s[k] BY DEF S!FirstRunning
<1>3. DOMAIN s = 1..Len(s) /\ Len(s) \in Nat BY <1>1
<1>4. run \in SUBSET (0..Len(s)) /\ run \subseteq DOMAIN s BY <1>3
<1>5. ASSUME run # {} PROVE s[k] \in S!Procs(h)
  <2> HIDE DEF run, s
  <2>1. \E m \in run : \A o \in run : m <= o BY <1>3, <1>4, <1>5, LeastNumber
  <2>2. k \in run BY <2>1
  <2> HIDE DEF k
  <2> QED BY <1>1, <1>4, <2>2
<1> HIDE DEF run, s, k
<1> QED BY <1>2, <1>5

\* A context with its process changed: it still stands in INIT.
LEMMA ScgiConnects ==
    ASSUME S!SCGIAssumption, NEW r, NEW hs \in ScgiHosts, NEW c \in ScgiRest, c.state = "INIT",
           Held(r, hs, c), NEW d \in ScgiRequest, d.host = c.host, d.got_proc = c.got_proc,
           d.state = "INIT", d.proc = S!None \/ d.proc \in S!Procs(c.host)
    PROVE  d \in ScgiBound /\ Held(r, hs, d)
<1>1. c.host \in S!Hosts /\ (calm' => ~c.got_proc)
  <2>1. c \in ScgiRequest BY DEF ScgiRest, ScgiRestOf, ScgiBound, ScgiBoundOf
  <2> QED BY <2>1 DEF ScgiRest, ScgiRestOf, ScgiRequest
<1>2. d \in ScgiBound BY <1>1 DEF ScgiBound, ScgiBoundOf
<1>3. Held(r, hs, d) BY <1>1, ScgiSameItself, HeldSame
<1> QED BY <1>2, <1>3

LEMMA ScgiWritesRequest ==
    ASSUME S!SCGIAssumption, hosts \in ScgiHosts, NEW r \in Requests, NEW c \in ScgiRest,
           Held(r, hosts, c), NEW fdwait \in BOOLEAN, Calmly(r, c), S!scgi_write_request(r, c, fdwait)
    PROVE  ScgiDone(r)
<1>1. c \in ScgiBound /\ c \in ScgiRequest BY DEF ScgiRest, ScgiRestOf, ScgiBound, ScgiBoundOf
<1>2. CASE c.state = "INIT"
  <2> DEFINE p == S!FirstRunning(hosts, c.host)
             b == IF p = S!None THEN c.pid ELSE c.pid \/ S!Proc(hosts, c.host, p).is_local
             d == [c EXCEPT !.proc = p, !.pid = b]
             e == [d EXCEPT !.state = "CONNECT", !.socket = "pending"]
             f == [d EXCEPT !.socket = "up"]
             g == [c EXCEPT !.fdwait = TRUE]
  <2>1. c.host \in S!Hosts /\ (calm' => ~c.got_proc) BY <1>1, <1>2 DEF ScgiRest, ScgiRestOf, ScgiRequest
  <2>2. p \in S!Procs(c.host) \cup {S!None} BY <2>1, ScgiChoice
  <2>3. b \in BOOLEAN
    <3>1. c.pid \in BOOLEAN BY <1>1 DEF ScgiRequest
    <3> HIDE DEF p
    <3> QED BY <3>1
  <2>4. \/ p = S!None /\ S!Refused(r, hosts, d, fdwait)
        \/ p # S!None /\ (S!Set(r, hosts, e) \/ S!Refused(r, hosts, d, fdwait) \/ S!GotProc(r, hosts, f, fdwait))
        \/ S!Set(r, hosts, g)
    BY <1>2 DEF S!scgi_write_request
  <2> HIDE DEF b, p
  <2>5. /\ d \in ScgiBound /\ d.host = c.host /\ d.proc = p /\ d.state = "INIT"
        /\ d.got_proc = c.got_proc /\ d.reconnects = c.reconnects /\ Held(r, hosts, d)
    <3>1. p \in 0..NProcs
      <4>1. S!Procs(c.host) \subseteq 1..NProcs /\ NProcs \in Nat BY <2>1, ScgiFinite
      <4> QED BY <2>2, <4>1 DEF S!None
    <3>2. /\ d \in ScgiRequest /\ d.host = c.host /\ d.proc = p /\ d.state = "INIT"
          /\ d.got_proc = c.got_proc /\ d.reconnects = c.reconnects
      BY <1>1, <1>2, <2>3, <3>1 DEF ScgiRequest
    <3> HIDE DEF d
    <3>3. d.proc = S!None \/ d.proc \in S!Procs(c.host) BY <2>2, <3>2
    <3>4. d \in ScgiBound /\ Held(r, hosts, d) BY <1>2, <3>2, <3>3, ScgiConnects
    <3> QED BY <3>2, <3>4
  <2>6. g \in ScgiRequest /\ SameScgi(g, c)
    BY <1>1 DEF ScgiRequest, SameScgi
  <2> HIDE DEF d
  <2>7. d \in ScgiRequest BY <2>5 DEF ScgiBound, ScgiBoundOf
  <2>8. /\ e \in ScgiRequest /\ e.host = d.host /\ e.proc = d.proc /\ e.got_proc = d.got_proc
        /\ e.state = "CONNECT"
    BY <2>7 DEF ScgiRequest
  <2>9. f \in ScgiRequest /\ SameScgi(f, d) BY <2>7 DEF ScgiRequest, SameScgi
  <2> HIDE DEF e, f, g
  <2>10. CASE S!Refused(r, hosts, d, fdwait) BY <2>1, <2>5, <2>10, ScgiRefuses
  <2>11. CASE p # S!None /\ S!Set(r, hosts, e)
    <3>1. e \in ScgiBound BY <2>5, <2>8 DEF ScgiBound, ScgiBoundOf
    <3>2. e.proc # S!None /\ e.host # S!None BY <2>1, <2>5, <2>8, <2>11, ScgiFinite
    <3>3. e \in ScgiRest BY <2>1, <2>5, <2>8, <3>1, <3>2 DEF ScgiRest, ScgiRestOf, ScgiBound
    <3>4. Held(r, hosts, e) BY <2>5, <2>8, ScgiSameItself, HeldSame
    <3> QED BY <2>11, <3>3, <3>4, ScgiSets
  <2>12. CASE p # S!None /\ S!GotProc(r, hosts, f, fdwait)
    <3>1. f \in ScgiBound BY <2>5, <2>9, ScgiRests
    <3>2. f.proc # S!None /\ (calm' => ~f.got_proc) BY <2>1, <2>5, <2>9, <2>12 DEF SameScgi
    <3>3. Held(r, hosts, f) BY <2>5, <2>9, ScgiSameItself, HeldSame DEF SameScgi
    <3>4. Calmly(r, f) BY <2>5, <2>9 DEF Calmly, SameScgi
    <3> QED BY <2>12, <3>1, <3>2, <3>3, <3>4, ScgiGets
  <2>13. CASE S!Set(r, hosts, g)
    <3>1. g \in ScgiRest BY <2>6, ScgiRests
    <3>2. Held(r, hosts, g) BY <2>6, ScgiSameItself, HeldSame DEF SameScgi
    <3> QED BY <2>13, <3>1, <3>2, ScgiSets
  <2> QED BY <2>4, <2>10, <2>11, <2>12, <2>13
<1>3. CASE c.state = "CONNECT"
  <2>1. c.proc # S!None /\ (calm' => ~c.got_proc) /\ c.host \in S!Hosts
    BY <1>1, <1>3 DEF ScgiRest, ScgiRestOf, ScgiBound, ScgiBoundOf
  <2>2. S!Refused(r, hosts, c, fdwait) \/ S!GotProc(r, hosts, c, fdwait) BY <1>3 DEF S!scgi_write_request
  <2>3. CASE S!Refused(r, hosts, c, fdwait) BY <1>1, <2>1, <2>3, ScgiRefuses
  <2>4. CASE S!GotProc(r, hosts, c, fdwait) BY <1>1, <2>1, <2>4, ScgiGets
  <2> QED BY <2>2, <2>3, <2>4
<1>4. CASE c.state = "WRITE"
  <2>1. c.proc # S!None /\ S!Write(r, hosts, c, fdwait) BY <1>4 DEF ScgiRest, ScgiRestOf, S!scgi_write_request
  <2> QED BY <1>1, <2>1, ScgiWrites
<1>5. CASE c.state = "READ"
  <2>1. S!Set(r, hosts, c) BY <1>5 DEF S!scgi_write_request
  <2> QED BY <2>1, ScgiSets
<1> QED BY <1>2, <1>3, <1>4, <1>5 DEF S!scgi_write_request

\* A request arrives.
LEMMA ScgiBest ==
    ASSUME S!SCGIAssumption, hosts \in ScgiHosts, NEW up \in SUBSET S!Hosts, up # {}
    PROVE  S!Best(up) \in up
<1> DEFINE R == {x \in up \X up : hosts[x[1]].load < hosts[x[2]].load
                                  \/ (hosts[x[1]].load = hosts[x[2]].load /\ x[1] < x[2])}
<1>1. \A s, t \in up : <<s, t>> \in R <=> hosts[s].load < hosts[t].load
                                          \/ (hosts[s].load = hosts[t].load /\ s < t)
  OBVIOUS
<1>2. \A s \in up : s \in Int /\ hosts[s].load \in Int
  <2>1. \A s \in S!Hosts : s \in Int /\ hosts[s].load \in Int BY ScgiReads DEF S!Hosts
  <2> QED BY <2>1
<1>3. IsFiniteSet(up)
  <2>1. IsFiniteSet(S!Hosts)
    <3>1. NHosts \in Int /\ 1 \in Int BY ScgiFinite
    <3>2. IsFiniteSet(1..NHosts) BY ONLY <3>1, FS_Interval
    <3> QED BY <3>2 DEF S!Hosts
  <2> QED BY <2>1, FS_Subset
<1> HIDE DEF R
<1>4. \A s \in up : <<s, s>> \notin R BY <1>1, <1>2
<1>5. \A s, t, u \in up : <<s, t>> \in R /\ <<t, u>> \in R => <<s, u>> \in R
  <2> TAKE s, t, u \in up
  <2>1. /\ s \in Int /\ t \in Int /\ u \in Int
        /\ hosts[s].load \in Int /\ hosts[t].load \in Int /\ hosts[u].load \in Int
    BY <1>2
  <2> QED BY <1>1, <2>1
<1>6. PICK s \in up : \A t \in up : <<t, s>> \notin R BY <1>3, <1>4, <1>5, FirstExists
<1>7. ASSUME NEW t \in up
      PROVE  hosts[s].load < hosts[t].load \/ (hosts[s].load = hosts[t].load /\ s <= t)
  <2>1. ~(hosts[t].load < hosts[s].load \/ (hosts[t].load = hosts[s].load /\ t < s)) BY <1>1, <1>6
  <2>2. s \in Int /\ t \in Int /\ hosts[s].load \in Int /\ hosts[t].load \in Int BY <1>2
  <2> QED BY <2>1, <2>2
<1> QED BY <1>7 DEF S!Best

LEMMA ScgiArrives ==
    ASSUME S!SCGIAssumption, ScgiInv, calm' => calm, NEW r \in Requests, S!scgi_check_extension(r)
    PROVE  ScgiDone(r)
<1> DEFINE c == hctx[r]
           up == {h \in S!Hosts : hosts[h].active_procs # 0}
           h == S!Best(up)
           d == [S!Idle EXCEPT !.state = "INIT", !.host = h, !.joblist = TRUE, !.fdwait = c.fdwait]
           n == HostSet(hosts, h, hosts[h].load + 1)
<1>1. hosts \in ScgiHosts /\ Held(r, hosts, c) /\ c \in ScgiRest BY ScgiBegins DEF ScgiInv
<1>2. c.host = S!None /\ ~c.got_proc
  <2>1. c \in ScgiRest /\ c.state \in {"none", "again"} BY <1>1 DEF S!scgi_check_extension
  <2> HIDE DEF c
  <2>2. c.host = S!None BY <2>1 DEF ScgiRest, ScgiRestOf
  <2>3. c.proc = S!None BY <2>1, <2>2, ScgiFinite DEF ScgiRest, ScgiRestOf, ScgiBound, ScgiBoundOf
  <2>4. ~c.got_proc BY <2>1, <2>3 DEF ScgiRest, ScgiRestOf
  <2> QED BY <2>2, <2>4
<1>3. CASE up = {}
  <2>1. hctx' = [hctx EXCEPT ![r] = S!Idle] /\ hosts' = hosts BY <1>3 DEF S!scgi_check_extension
  <2>2. S!Idle \in ScgiRest /\ S!Idle.host = S!None /\ ~S!Idle.got_proc BY ScgiIdle
  <2> HIDE DEF c
  <2>3. Held(r, hosts, S!Idle) BY <1>1, <1>2, <2>2, ScgiSameItself, HeldSame
  <2> QED BY <1>1, <2>1, <2>2, <2>3 DEF ScgiDone
<1>4. CASE up # {}
  <2>1. hctx' = [hctx EXCEPT ![r] = d] /\ hosts' = [hosts EXCEPT ![h].load = hosts[h].load + 1]
    BY <1>4 DEF S!scgi_check_extension
  <2>2. hosts' = n BY <2>1 DEF HostSet
  <2>3. h \in S!Hosts
    <3>1. up \in SUBSET S!Hosts OBVIOUS
    <3> HIDE DEF up
    <3>2. h \in up BY <1>1, <1>4, <3>1, ScgiBest
    <3> QED BY <3>1, <3>2
  <2> HIDE DEF h
  <2>4. d \in ScgiRequest /\ d.host = h /\ ~d.got_proc /\ d.proc = S!None /\ d.state = "INIT"
    <3> DEFINE i == S!Idle
    <3>1. i \in ScgiRequest /\ ~i.got_proc /\ i.proc = S!None BY ScgiIdle DEF S!Idle
    <3>3. c.fdwait \in BOOLEAN BY <1>1 DEF ScgiRest, ScgiRestOf, ScgiBoundOf, ScgiRequest
    <3> HIDE DEF i, c
    <3>2. LET e == [i EXCEPT !.state = "INIT", !.host = h, !.joblist = TRUE, !.fdwait = c.fdwait]
          IN  e \in ScgiRequest /\ e.host = h /\ ~e.got_proc /\ e.proc = S!None /\ e.state = "INIT"
      BY <2>3, <3>1, <3>3 DEF ScgiRequest
    <3> QED BY <3>2 DEF i
  <2> HIDE DEF d, c
  <2>5. d \in ScgiBound BY <2>4 DEF ScgiBound, ScgiBoundOf
  <2>6. d \in ScgiRest BY <2>3, <2>4, <2>5, ScgiFinite DEF ScgiRest, ScgiRestOf, ScgiBound
  <2>7. n \in ScgiHosts /\ Held(r, n, d) BY <1>1, <1>2, <2>3, <2>4, HeldTaken
  <2> HIDE DEF n
  <2> QED BY <2>1, <2>2, <2>6, <2>7 DEF ScgiDone
<1> QED BY <1>3, <1>4

\* A child that has died is replaced, and no load changes.
Replaced(c, result) ==
    LET proc_ == S!Proc(hosts, c.host, c.proc) IN
    IF proc_.is_local /\ proc_.state # "DIED" /\ proc_.child = "zombie"
    THEN IF result = "failed"
         THEN [S!Reaped(hosts, c.host, c.proc) EXCEPT ![c.host].procs[c.proc].state = "DIED"]
         ELSE S!scgi_proclist_sort_down(
                 S!scgi_spawn_connection(S!Reaped(hosts, c.host, c.proc), c.host, c.proc, result),
                 c.host, c.proc)
    ELSE hosts
LEMMA ScgiReplaces ==
    ASSUME S!SCGIAssumption, hosts \in ScgiHosts, NEW c, c.host \in S!Hosts,
           c.proc \in S!Procs(c.host), NEW result \in S!SpawnResults
    PROVE  Replaced(c, result) \in ScgiHosts /\ ScgiSame(hosts, Replaced(c, result))
<1> DEFINE h == c.host
           p == c.proc
           q == hosts[h].procs[p]
           m == S!Reaped(hosts, h, p)
           o == S!scgi_spawn_connection(m, h, p, result)
           n == S!scgi_proclist_sort_down(o, h, p)
           e == [m EXCEPT ![h].procs[p].state = "DIED"]
<1>1. CASE ~(q.is_local /\ q.state # "DIED" /\ q.child = "zombie")
  <2>1. Replaced(c, result) = hosts BY <1>1 DEF Replaced, S!Proc
  <2> QED BY <2>1, ScgiSameItself
<1>2. CASE q.is_local /\ q.state # "DIED" /\ q.child = "zombie"
  <2>1. Replaced(c, result) = IF result = "failed" THEN e ELSE n BY ZenonT(60), <1>2 DEF Replaced, S!Proc
  <2>2. m \in ScgiHosts /\ ScgiSame(hosts, m) /\ m[h].procs[p] = ProcOf(q.state, q.load, q.is_local, "none")
    <3> DEFINE x == [hosts EXCEPT ![h].procs[p].child = "none"]
    <3>1. x \in ScgiHosts /\ ScgiSame(hosts, x) /\ x[h].procs[p] = ProcOf(q.state, q.load, q.is_local, "none")
      BY ScgiChildren
    <3> QED BY ZenonT(60), <3>1 DEF S!Reaped
  <2> HIDE DEF m
  <2>3. m[h].procs[p].child = "none" /\ m[h].procs[p].is_local BY <1>2, <2>2 DEF ProcOf
  <2>4. e \in ScgiHosts /\ ScgiSame(m, e) BY <2>2, <2>3, ScgiStates
  <2>5. o \in ScgiHosts /\ ScgiSame(m, o) BY <2>2, <2>3, ScgiSpawns
  <2> HIDE DEF o, e
  <2>6. n \in ScgiHosts /\ ScgiSame(o, n) BY <2>5, ScgiSortsSame
  <2> HIDE DEF n
  <2>7. ScgiSame(hosts, e) BY <2>2, <2>4, ScgiSameTransitive
  <2>8. ScgiSame(hosts, n)
    <3>1. ScgiSame(hosts, o) BY <2>2, <2>5, ScgiSameTransitive
    <3> QED BY ZenonT(60), <2>6, <3>1, ScgiSameTransitive
  <2> QED BY <2>1, <2>4, <2>6, <2>7, <2>8
<1> QED BY <1>1, <1>2

LEMMA ScgiDemuxes ==
    ASSUME S!SCGIAssumption, hosts \in ScgiHosts, NEW r, NEW c \in ScgiRest, c.state = "READ",
           Held(r, hosts, c), Calmly(r, c), S!Demux(r, c)
    PROVE  ScgiDone(r)
<1>1. /\ c \in ScgiBound /\ c \in ScgiRequest /\ c.proc # S!None
      /\ c.host \in S!Hosts /\ c.proc \in S!Procs(c.host)
  BY DEF ScgiRest, ScgiRestOf, ScgiBound, ScgiBoundOf
<1> DEFINE d == [c EXCEPT !.unread = "none", !.file_started = TRUE]
<1>2. CASE S!Set(r, hosts, d)
  <2>1. d \in ScgiRequest /\ SameScgi(d, c) BY <1>1 DEF ScgiRequest, SameScgi
  <2> HIDE DEF d
  <2>2. d \in ScgiRest BY <2>1, ScgiRests
  <2>3. Held(r, hosts, d) BY <2>1, ScgiSameItself, HeldSame DEF SameScgi
  <2> QED BY <1>2, <2>2, <2>3, ScgiSets
<1>3. CASE S!Close(r, hosts, c) BY <1>1, <1>3, ScgiCloses
<1>4. ASSUME NEW result \in S!SpawnResults,
             IF ~c.file_started /\ ~c.bytes_out /\ c.reconnects < MaxReconnects
             THEN S!scgi_reconnect(r, Replaced(c, result), c, c.fdwait)
             ELSE S!Close(r, Replaced(c, result), c)
      PROVE  ScgiDone(r)
  <2> DEFINE n == Replaced(c, result)
  <2>1. n \in ScgiHosts /\ ScgiSame(hosts, n) BY <1>1, ScgiReplaces
  <2>2. \/ c.reconnects < MaxReconnects /\ S!scgi_reconnect(r, n, c, c.fdwait)
        \/ S!Close(r, n, c)
    BY <1>4
  <2> HIDE DEF n
  <2>3. Held(r, n, c) BY <2>1, HeldSame
  <2>4. c.fdwait \in BOOLEAN BY <1>1 DEF ScgiRequest
  <2>5. CASE S!Close(r, n, c) BY <1>1, <2>1, <2>3, <2>5, ScgiCloses
  <2>6. CASE c.reconnects < MaxReconnects /\ S!scgi_reconnect(r, n, c, c.fdwait)
    BY <1>1, <2>1, <2>3, <2>4, <2>6, ScgiReconnects
  <2> QED BY <2>2, <2>5, <2>6
<1> QED BY <1>2, <1>3, <1>4 DEF S!Demux, Replaced

LEMMA ScgiUndisturbed ==
    ASSUME S!SCGIAssumption, ScgiInv, calm' => calm, calm' \in BOOLEAN,
           hosts' \in ScgiHosts, ScgiSame(hosts, hosts'),
           hctx' \in [Requests -> ScgiRest],
           \A q \in Requests : hctx'[q].host = hctx[q].host /\ hctx'[q].proc = hctx[q].proc
                               /\ hctx'[q].got_proc = hctx[q].got_proc
    PROVE  ScgiInv'
<1>1. \A h : S!Holders(h)' = S!Holders(h) BY DEF S!Holders
<1>2. \A h, p : S!Users(h, p)' = S!Users(h, p) BY <1>1 DEF S!Users, S!Holders
<1>3. ASSUME NEW h \in S!Hosts
      PROVE  /\ hosts'[h].load >= S!Cardinality(S!Holders(h)')
             /\ calm' =>
                   /\ ScgiOrdered(hosts', h)
                   /\ \A p \in S!Procs(h) : ProcLoads(hosts', h)[p] = Cardinality(S!Users(h, p)')
  <2>1. SameHost(hosts, hosts', h) BY DEF ScgiSame
  <2>2. hosts[h].load >= S!Cardinality(S!Holders(h)) BY DEF ScgiInv, S!LoadKept
  <2>3. calm' =>
           /\ ScgiOrdered(hosts, h)
           /\ \A p \in S!Procs(h) : ProcLoads(hosts, h)[p] = Cardinality(S!Users(h, p))
    BY DEF ScgiInv
  <2> QED BY <1>1, <1>2, <2>1, <2>2, <2>3 DEF SameHost
<1>4. S!LoadKept' BY <1>3 DEF S!LoadKept
<1>5. \A h : ScgiOrdered(hosts, h)' = ScgiOrdered(hosts', h) /\ ProcLoads(hosts, h)' = ProcLoads(hosts', h)
  BY DEF ScgiOrdered, ProcLoads
<1>6. hctx' \in [Requests -> ScgiRestOf(calm')] BY DEF ScgiRest
<1> QED BY <1>3, <1>4, <1>5, <1>6 DEF ScgiInv

LEMMA ScgiStep ==
    ASSUME S!SCGIAssumption, ScgiInv, calm' => calm, calm' \in BOOLEAN,
           \/ S!Steps /\ \A r \in Requests : calm' => hctx'[r].reconnects <= hctx[r].reconnects
           \/ UNCHANGED <<hosts, hctx>>
    PROVE  ScgiInv'
<1>1. hosts \in ScgiHosts /\ hctx \in [Requests -> ScgiRest] BY ScgiCalmer DEF ScgiInv
<1>2. \A r \in Requests : /\ hctx[r] \in ScgiRest /\ hctx[r] \in ScgiBound /\ hctx[r] \in ScgiRequest
                          /\ Held(r, hosts, hctx[r])
  <2>1. \A r \in Requests : hctx[r] \in ScgiRest BY <1>1
  <2>2. \A r \in Requests : Held(r, hosts, hctx[r]) BY ScgiBegins
  <2> QED BY <2>1, <2>2 DEF ScgiRest, ScgiRestOf, ScgiBound, ScgiBoundOf
<1> DEFINE calmly == \A r \in Requests : Calmly(r, hctx[r])
<1>11. (S!Steps /\ calmly) \/ UNCHANGED <<hosts, hctx>> BY <1>1 DEF Calmly
<1> HIDE DEF calmly
<1>3. ASSUME NEW r \in Requests, S!scgi_check_extension(r) PROVE ScgiInv'
  <2>1. ScgiDone(r) BY <1>3, ScgiArrives
  <2> QED BY <2>1, ScgiEnds
<1>4. ASSUME NEW r \in Requests, S!Continue(r), calmly PROVE ScgiInv'
  <2> DEFINE c == hctx[r]
             j == [c EXCEPT !.joblist = FALSE]
             f == [c EXCEPT !.fdwait = FALSE]
  <2>1. c \in ScgiRest /\ c \in ScgiRequest /\ Held(r, hosts, c) BY <1>2
  <2>2. S!scgi_write_request(r, j, TRUE) \/ S!scgi_write_request(r, f, TRUE) BY <1>4 DEF S!Continue
  <2>9. Calmly(r, c) BY <1>4 DEF calmly
  <2> HIDE DEF c
  <2>3. j \in ScgiRequest /\ SameScgi(j, c) BY <2>1 DEF ScgiRequest, SameScgi
  <2>4. f \in ScgiRequest /\ SameScgi(f, c) BY <2>1 DEF ScgiRequest, SameScgi
  <2> HIDE DEF j, f
  <2>5. j \in ScgiRest /\ f \in ScgiRest BY <2>1, <2>3, <2>4, ScgiRests
  <2>10. Calmly(r, j) /\ Calmly(r, f) BY <2>3, <2>4, <2>9 DEF Calmly, SameScgi
  <2>6. Held(r, hosts, j) BY <2>1, <2>3, ScgiSameItself, HeldSame DEF SameScgi
  <2>7. Held(r, hosts, f) BY <2>1, <2>4, ScgiSameItself, HeldSame DEF SameScgi
  <2>8. ScgiDone(r)
    <3>1. CASE S!scgi_write_request(r, j, TRUE) BY <1>1, <2>5, <2>6, <2>10, <3>1, ScgiWritesRequest
    <3>2. CASE S!scgi_write_request(r, f, TRUE) BY <1>1, <2>5, <2>7, <2>10, <3>2, ScgiWritesRequest
    <3> QED BY <2>2, <3>1, <3>2
  <2> QED BY <2>8, ScgiEnds
<1>5. ASSUME NEW r \in Requests, S!scgi_connection_close_callback(r) PROVE ScgiInv'
  <2>1. S!Close(r, hosts, hctx[r]) BY <1>5 DEF S!scgi_connection_close_callback
  <2>2. ScgiDone(r) BY <1>1, <1>2, <2>1, ScgiCloses
  <2> QED BY <2>2, ScgiEnds
<1>6. ASSUME NEW r \in Requests, S!scgi_handle_fdevent(r), calmly PROVE ScgiInv'
  <2>3. Calmly(r, hctx[r]) BY <1>6 DEF calmly
  <2>1. CASE hctx[r].state = "READ" /\ S!Demux(r, hctx[r])
    <3>1. ScgiDone(r) BY <1>1, <1>2, <2>1, <2>3, ScgiDemuxes
    <3> QED BY <3>1, ScgiEnds
  <2>2. CASE S!scgi_write_request(r, hctx[r], hctx[r].fdwait)
    <3>1. hctx[r].fdwait \in BOOLEAN BY <1>2 DEF ScgiRequest
    <3>2. ScgiDone(r) BY <1>1, <1>2, <2>2, <2>3, <3>1, ScgiWritesRequest
    <3> QED BY <3>2, ScgiEnds
  <2> QED BY <1>6, <2>1, <2>2 DEF S!scgi_handle_fdevent
<1>7. ASSUME NEW r \in Requests, S!Backend(r) PROVE ScgiInv'
  <2> DEFINE c == hctx[r]
  <2>1. c \in ScgiRest /\ c \in ScgiRequest /\ Held(r, hosts, c) BY <1>2
  <2>2. ASSUME NEW d \in ScgiRequest, SameScgi(d, c), hctx' = [hctx EXCEPT ![r] = d]
        PROVE  ScgiInv'
    <3>1. hosts' = hosts BY <1>7 DEF S!Backend
    <3> HIDE DEF c
    <3>2. d \in ScgiRest BY <2>1, <2>2, ScgiRests
    <3>3. Held(r, hosts, d) BY <2>1, <2>2, ScgiSameItself, HeldSame DEF SameScgi
    <3>4. ScgiDone(r) BY <1>1, <2>2, <3>1, <3>2, <3>3 DEF ScgiDone
    <3> QED BY <3>4, ScgiEnds
  <2>3. ASSUME NEW s \in {"up", "refused", "closed"}, hctx' = [hctx EXCEPT ![r].socket = s]
        PROVE  ScgiInv'
    <3> DEFINE d == [c EXCEPT !.socket = s]
    <3>1. hctx' = [hctx EXCEPT ![r] = d] BY <1>1, <2>3
    <3> HIDE DEF c
    <3>2. d \in ScgiRequest /\ SameScgi(d, c) BY <2>1 DEF ScgiRequest, SameScgi
    <3> HIDE DEF d
    <3> QED BY <2>2, <3>1, <3>2
  <2>4. ASSUME hctx' = [hctx EXCEPT ![r].unread = "body"] PROVE ScgiInv'
    <3> DEFINE d == [c EXCEPT !.unread = "body"]
    <3>1. hctx' = [hctx EXCEPT ![r] = d] BY <1>1, <2>4
    <3> HIDE DEF c
    <3>2. d \in ScgiRequest /\ SameScgi(d, c) BY <2>1 DEF ScgiRequest, SameScgi
    <3> HIDE DEF d
    <3> QED BY <2>2, <3>1, <3>2
  <2> QED BY <1>7, <2>3, <2>4 DEF S!Backend
<1>8. ASSUME NEW h \in S!Hosts, NEW p \in S!Procs(h), S!Dies(h, p) PROVE ScgiInv'
  <2> DEFINE q == hosts[h].procs[p]
             n == [hosts EXCEPT ![h].procs[p].child = "zombie"]
             socket(r) == IF hctx[r].socket = "up" THEN "closed" ELSE "refused"
             hit(r) == hctx[r].host = h /\ hctx[r].proc = p /\ hctx[r].socket \in {"pending", "up"}
             d(r) == IF hit(r) THEN [hctx[r] EXCEPT !.socket = socket(r)] ELSE hctx[r]
  <2>1. q.child = "alive" BY <1>8 DEF S!Dies, S!Proc
  <2>2. q.is_local /\ q.state # "DIED"
    <3>1. q.is_local \in BOOLEAN /\ (q.state = "DIED" => q.child = "none") /\ (~q.is_local => q.child = "none")
      BY <1>1, ScgiProcReads
    <3> QED BY <2>1, <3>1
  <2>3. n \in ScgiHosts /\ ScgiSame(hosts, n) BY <1>1, <2>2, ScgiChildren
  <2>4. hosts' = n BY <1>8 DEF S!Dies
  <2> HIDE DEF n
  <2>5. hctx' = [r \in Requests |-> d(r)] BY <1>1, <1>2, <1>8 DEF S!Dies
  <2>6. ASSUME NEW r \in Requests
        PROVE  d(r) \in ScgiRest /\ d(r).host = hctx[r].host /\ d(r).proc = hctx[r].proc
               /\ d(r).got_proc = hctx[r].got_proc
    <3>1. CASE ~hit(r) BY <1>2, <3>1
    <3>2. CASE hit(r)
      <4> DEFINE c == hctx[r]
                 e == [c EXCEPT !.socket = socket(r)]
      <4>1. c \in ScgiRest /\ c \in ScgiRequest BY <1>2
      <4>2. socket(r) \in {"closed", "refused"} OBVIOUS
      <4>3. d(r) = e BY <3>2
      <4> HIDE DEF c, d, socket
      <4>4. e \in ScgiRequest /\ SameScgi(e, c) BY <4>1, <4>2 DEF ScgiRequest, SameScgi
      <4> HIDE DEF e
      <4>5. e \in ScgiRest BY <4>1, <4>4, ScgiRests
      <4> QED BY <4>3, <4>4, <4>5 DEF SameScgi, c
    <3> QED BY <3>1, <3>2
  <2> HIDE DEF d
  <2>7. /\ hctx' \in [Requests -> ScgiRest]
        /\ \A r \in Requests : hctx'[r].host = hctx[r].host /\ hctx'[r].proc = hctx[r].proc
                               /\ hctx'[r].got_proc = hctx[r].got_proc
    BY <2>5, <2>6
  <2> QED BY <2>3, <2>4, <2>7, ScgiUndisturbed
<1>9. CASE S!mod_scgi_handle_trigger
  <2>1. hosts' \in ScgiHosts /\ ScgiSame(hosts, hosts') BY <1>1, <1>9, ScgiTriggers
  <2>2. hctx' = hctx BY <1>9 DEF S!mod_scgi_handle_trigger
  <2> QED BY <1>1, <2>1, <2>2, ScgiUndisturbed
<1>10. CASE UNCHANGED <<hosts, hctx>>
  <2>1. hosts' = hosts /\ hctx' = hctx BY <1>10
  <2> QED BY <1>1, <2>1, ScgiSameItself, ScgiUndisturbed
<1> QED BY <1>3, <1>4, <1>5, <1>6, <1>7, <1>8, <1>9, <1>10, <1>11 DEF S!Steps

\* mod_scgi puts each new process before the others: its lists begin turned round.
LEMMA ScgiFirsts ==
    ASSUME S!SCGIAssumption, NEW h \in S!Hosts
    PROVE  LET s == IF h \in Local THEN [p \in 1..NProcs |-> NProcs + 1 - p] ELSE <<1>>
           IN  s \in Seq(S!Procs(h)) /\ Lists(S!Procs(h), s) /\ Len(s) = Cardinality(S!Procs(h))
<1>1. NProcs \in Nat \ {0} BY ScgiFinite
<1>2. CASE h \in Local
  <2> DEFINE s == [p \in 1..NProcs |-> NProcs + 1 - p]
  <2>1. S!Procs(h) = 1..NProcs BY <1>2 DEF S!Procs
  <2>2. \A i \in 1..NProcs : NProcs + 1 - i \in 1..NProcs BY <1>1
  <2>3. s \in Seq(1..NProcs) /\ Len(s) = NProcs BY <1>1, <2>2
  <2>4. \A p \in 1..NProcs : s[NProcs + 1 - p] = p /\ NProcs + 1 - p \in 1..NProcs BY <1>1, <2>2
  <2>5. \A i, j \in 1..NProcs : i # j => s[i] # s[j] BY <1>1
  <2>6. Cardinality(1..NProcs) = NProcs
    <3>1. 1 \in Int /\ NProcs \in Int /\ ~(1 > NProcs) /\ NProcs - 1 + 1 = NProcs BY <1>1
    <3>2. Cardinality(1..NProcs) = NProcs - 1 + 1 BY <3>1, FS_Interval
    <3> QED BY <3>1, <3>2
  <2> HIDE DEF s
  <2>7. Lists(1..NProcs, s) BY <2>3, <2>4, <2>5 DEF Lists
  <2> QED BY <1>2, <2>1, <2>3, <2>6, <2>7 DEF s
<1>3. CASE h \notin Local
  <2> DEFINE s == <<1>>
  <2>1. S!Procs(h) = {1} BY <1>3 DEF S!Procs
  <2>2. s \in Seq({1}) /\ Len(s) = 1 /\ s[1] = 1 OBVIOUS
  <2>3. Cardinality({1}) = 1 BY FS_Singleton
  <2> HIDE DEF s
  <2>4. Lists({1}, s) BY <2>2 DEF Lists
  <2> QED BY <1>3, <2>1, <2>2, <2>3, <2>4 DEF s
<1> QED BY <1>2, <1>3

LEMMA ListLength ==
    ASSUME NEW A, NEW s \in Seq(A), Lists(A, s)
    PROVE  Len(s) = Cardinality(A)
<1>1. Len(s) \in Nat /\ s \in [1..Len(s) -> A] OBVIOUS
<1>2. s \in Bijection(1..Len(s), A)
  <2>1. \A i, j \in 1..Len(s) : s[i] = s[j] => i = j BY DEF Lists
  <2>2. \A p \in A : \E k \in 1..Len(s) : s[k] = p BY DEF Lists
  <2>3. DOMAIN s = 1..Len(s) BY <1>1
  <2> QED BY <1>1, <2>1, <2>2, <2>3 DEF Bijection, Injection, Surjection, IsInjective
<1>3. ExistsBijection(1..Len(s), A) BY <1>2 DEF ExistsBijection
<1> QED BY <1>1, <1>3, FS_CountingElements

LEMMA ScgiStart ==
    ASSUME S!SCGIAssumption, S!Init
    PROVE  ScgiInv
<1> DEFINE first(h) == IF h \in Local THEN [p \in 1..NProcs |-> NProcs + 1 - p] ELSE <<1>>
           proc_(h) == ProcOf("RUNNING", 0, h \in Local, IF h \in Local THEN "alive" ELSE "none")
           procs(h) == [p \in S!Procs(h) |-> proc_(h)]
           host(h) == HostOf(0, Cardinality(S!Procs(h)), first(h), procs(h))
<1>1. hosts = [h \in S!Hosts |-> host(h)] BY ScgiCardinality DEF S!Init, HostOf, ProcOf
<1>2. hctx = [r \in Requests |-> S!Idle] BY DEF S!Init
<1>3. SizeModulus \in Nat \ {0} BY ScgiFinite
<1>4. ASSUME NEW h \in S!Hosts
      PROVE  /\ host(h) \in ScgiHost(h) /\ host(h).load = 0 /\ host(h).first = first(h)
             /\ \A p \in S!Procs(h) : host(h).procs[p].load = 0
             /\ first(h) \in Seq(S!Procs(h))
  <2>1. first(h) \in Seq(S!Procs(h)) /\ Lists(S!Procs(h), first(h)) BY ScgiFirsts
  <2>2. proc_(h) \in ScgiProcs /\ proc_(h).load = 0
    <3>1. CASE h \in Local
      <4>1. proc_(h) = ProcOf("RUNNING", 0, TRUE, "alive") BY <3>1
      <4> QED BY <1>3, <4>1 DEF ProcOf, ScgiProcs
    <3>2. CASE h \notin Local
      <4>1. (h \in Local) = FALSE BY <3>2
      <4>2. proc_(h) = ProcOf("RUNNING", 0, FALSE, "none") BY <3>2, <4>1
      <4> QED BY <1>3, <4>2 DEF ProcOf, ScgiProcs
    <3> QED BY <3>1, <3>2
  <2> HIDE DEF proc_, first
  <2>3. procs(h) \in [S!Procs(h) -> ScgiProcs] /\ \A p \in S!Procs(h) : procs(h)[p].load = 0 BY <2>2
  <2> HIDE DEF procs
  <2>4. IsFiniteSet(S!Procs(h)) BY ScgiFinite
  <2>5. Cardinality(S!Procs(h)) \in Int /\ Cardinality(S!Procs(h)) >= Cardinality(Runs(procs(h)))
    <3>1. Runs(procs(h)) \subseteq S!Procs(h) BY <2>3 DEF Runs
    <3>2. Cardinality(Runs(procs(h))) <= Cardinality(S!Procs(h)) /\ IsFiniteSet(Runs(procs(h)))
      BY <2>4, <3>1, FS_Subset
    <3>3. Cardinality(Runs(procs(h))) \in Nat /\ Cardinality(S!Procs(h)) \in Nat
      BY <2>4, <3>2, FS_CardinalityType
    <3> QED BY <3>2, <3>3
  <2> QED BY <2>1, <2>3, <2>5 DEF HostOf, ScgiHost
<1> HIDE DEF host, first
<1>5. hosts \in ScgiHosts
  <2>1. \A h \in S!Hosts : hosts[h] \in ScgiHost(h) BY <1>1, <1>4
  <2>2. hosts \in [S!Hosts -> UNION {ScgiHost(h) : h \in S!Hosts}] BY <1>1, <1>4
  <2> QED BY <2>1, <2>2 DEF ScgiHosts
<1>6. S!Idle \in ScgiRestOf(calm) /\ S!Idle.host = S!None /\ calm \in BOOLEAN BY ScgiIdle DEF S!Init
<1>7. \A h \in S!Hosts : S!Holders(h) = {} /\ \A p : S!Users(h, p) = {}
  BY <1>2, <1>6, ScgiFinite DEF S!Holders, S!Users
<1>8. S!Cardinality({}) = 0 /\ Cardinality({}) = 0 BY ScgiCardinality, FS_EmptySet
<1>9. S!LoadKept
  <2>1. \A h \in S!Hosts : hosts[h].load = 0 BY <1>1, <1>4
  <2>2. \A h \in S!Hosts : S!Cardinality(S!Holders(h)) = 0 BY <1>7, <1>8
  <2> QED BY <2>1, <2>2 DEF S!LoadKept
<1>10. ASSUME NEW h \in S!Hosts
       PROVE  /\ ScgiOrdered(hosts, h)
              /\ \A p \in S!Procs(h) : ProcLoads(hosts, h)[p] = Cardinality(S!Users(h, p))
  <2>1. \A p \in S!Procs(h) : ProcLoads(hosts, h)[p] = 0 BY <1>1, <1>4 DEF ProcLoads
  <2>2. hosts[h].first \in Seq(S!Procs(h)) BY <1>1, <1>4
  <2>3. \A i \in 1..Len(hosts[h].first) : ProcLoads(hosts, h)[hosts[h].first[i]] = 0 BY <2>1, <2>2
  <2>4. ScgiOrdered(hosts, h) BY <2>3 DEF ScgiOrdered, InOrder
  <2> QED BY <1>7, <1>8, <2>1, <2>4
<1> QED BY <1>2, <1>5, <1>6, <1>9, <1>10 DEF ScgiInv

LEMMA ScgiInvariant ==
    ASSUME S!SCGIAssumption
    PROVE  S!Spec => []ScgiInv
<1>1. S!Init => ScgiInv BY ScgiStart
<1>2. ScgiInv /\ [S!Next]_S!vars => ScgiInv'
  <2> SUFFICES ASSUME ScgiInv, [S!Next]_S!vars PROVE ScgiInv' OBVIOUS
  <2>1. CASE S!Next
    <3> DEFINE q == \A r \in Requests : hctx'[r].reconnects <= hctx[r].reconnects
    <3>1. S!Steps /\ calm' = (calm /\ q) BY <2>1 DEF S!Next
    <3>2. calm' \in BOOLEAN /\ (calm' => calm) /\ (calm' => q)
      <4>1. calm \in BOOLEAN BY DEF ScgiInv
      <4> HIDE DEF q
      <4> QED BY Zenon, <3>1, <4>1
    <3> QED BY <3>1, <3>2, ScgiStep
  <2>2. CASE UNCHANGED S!vars
    <3>1. UNCHANGED <<hosts, hctx>> /\ calm' = calm BY <2>2 DEF S!vars
    <3>2. calm' \in BOOLEAN /\ (calm' => calm) BY <3>1 DEF ScgiInv
    <3> QED BY <3>1, <3>2, ScgiStep
  <2> QED BY <2>1, <2>2
<1> QED BY <1>1, <1>2, PTL DEF S!Spec

-----------------------------------------------------------------------------
(***************************************************************************)
(* What the properties of the module say.                                  *)
(***************************************************************************)

\* SCGI.tla, ActiveCovers: active_procs, by which scgi_check_extension() passes a host
\* over, is never less than the number of its processes that run: what disables or marks
\* a process takes one off it at most, what starts or enables one puts one on.
THEOREM ScgiActiveCovers ==
    ASSUME S!SCGIAssumption
    PROVE  S!Spec => []S!ActiveCovers
<1>1. ScgiInv => S!ActiveCovers
  <2> SUFFICES ASSUME ScgiInv, NEW h \in S!Hosts
               PROVE  hosts[h].active_procs >=
                          S!Cardinality({p \in S!Procs(h) : S!Proc(hosts, h, p).state = "RUNNING"})
    BY DEF S!ActiveCovers
  <2>1. /\ hosts[h].procs \in [S!Procs(h) -> ScgiProcs]
        /\ hosts[h].active_procs >= Cardinality(Runs(hosts[h].procs))
    BY ScgiReads DEF ScgiInv
  <2>2. {p \in S!Procs(h) : S!Proc(hosts, h, p).state = "RUNNING"} = Runs(hosts[h].procs)
    BY <2>1 DEF Runs, S!Proc
  <2> QED BY <2>1, <2>2, ScgiCardinality
<1> QED BY <1>1, ScgiInvariant, PTL

\* SCGI.tla, LoadKept: the load of a host is never less than the number of requests that
\* have it: scgi_connection_cleanup() takes a request off it once, scgi_reconnect() does not.
THEOREM ScgiLoadKept ==
    ASSUME S!SCGIAssumption
    PROVE  S!Spec => []S!LoadKept
<1>1. ScgiInv => S!LoadKept BY DEF ScgiInv
<1> QED BY <1>1, ScgiInvariant, PTL

\* SCGI.tla, OneChild: scgi_spawn_connection() is reached only where waitpid() has taken
\* the child before away, from the trigger as from a read error.
THEOREM ScgiOneChild ==
    ASSUME S!SCGIAssumption
    PROVE  S!Spec => []S!OneChild
<1>1. ScgiInv => S!OneChild
  <2> SUFFICES ASSUME ScgiInv, NEW h \in S!Hosts, NEW p \in S!Procs(h)
               PROVE  S!Proc(hosts, h, p).child # "two"
    BY DEF S!OneChild
  <2>1. hosts[h].procs[p].child \in {"none", "alive", "zombie"} BY ScgiProcReads DEF ScgiInv
  <2> QED BY <2>1 DEF S!Proc
<1> QED BY <1>1, ScgiInvariant, PTL

\* SCGI.tla, ListWhole: wherever the two sorts put the process they have cut out of the
\* list, the list of a host holds each of its processes once.
THEOREM ScgiListWhole ==
    ASSUME S!SCGIAssumption
    PROVE  S!Spec => []S!ListWhole
<1>1. ScgiInv => S!ListWhole
  <2> SUFFICES ASSUME ScgiInv, NEW h \in S!Hosts
               PROVE  /\ \A p \in S!Procs(h) : \E k \in DOMAIN hosts[h].first : hosts[h].first[k] = p
                      /\ Len(hosts[h].first) = S!Cardinality(S!Procs(h))
    BY DEF S!ListWhole
  <2>1. hosts[h].first \in Seq(S!Procs(h)) /\ Lists(S!Procs(h), hosts[h].first)
    BY ScgiReads DEF ScgiInv
  <2>2. DOMAIN hosts[h].first = 1..Len(hosts[h].first) BY <2>1
  <2>3. Len(hosts[h].first) = Cardinality(S!Procs(h)) BY <2>1, ListLength
  <2> QED BY <2>1, <2>2, <2>3, ScgiCardinality DEF Lists
<1> QED BY <1>1, ScgiInvariant, PTL

\* SCGI.tla, ListSorted: as long as no request has been reconnected, which one may be five
\* times, the load of a process is the number of requests connected to it, and both sorts,
\* called after each change of a load and each start, leave the list of a host in its order.
THEOREM ScgiListSorted ==
    ASSUME S!SCGIAssumption
    PROVE  S!Spec => []S!ListSorted
<1>1. ScgiInv => S!ListSorted
  <2> SUFFICES ASSUME ScgiInv, calm, NEW h \in S!Hosts
               PROVE  /\ \A p \in S!Procs(h) : S!Load(hosts, h, p) = S!Cardinality(S!Users(h, p))
                      /\ \A k \in 2..Len(hosts[h].first) :
                            S!Load(hosts, h, hosts[h].first[k - 1]) <= S!Load(hosts, h, hosts[h].first[k])
    BY DEF S!ListSorted
  <2> DEFINE s == hosts[h].first
  <2>1. /\ InOrder(s, ProcLoads(hosts, h))
        /\ \A p \in S!Procs(h) : ProcLoads(hosts, h)[p] = Cardinality(S!Users(h, p))
    BY DEF ScgiInv, ScgiOrdered
  <2>2. s \in Seq(S!Procs(h)) BY ScgiReads DEF ScgiInv
  <2>3. \A p \in S!Procs(h) : S!Load(hosts, h, p) = ProcLoads(hosts, h)[p]
    BY DEF ProcLoads, S!Load, S!Proc
  <2> HIDE DEF s
  <2>4. ASSUME NEW k \in 2..Len(s) PROVE S!Load(hosts, h, s[k - 1]) <= S!Load(hosts, h, s[k])
    <3>1. k - 1 \in 1..Len(s) /\ k \in 1..Len(s) /\ k - 1 < k BY <2>2
    <3>2. s[k - 1] \in S!Procs(h) /\ s[k] \in S!Procs(h) BY <2>2, <3>1
    <3> QED BY <2>1, <2>3, <3>1, <3>2 DEF InOrder
  <2> QED BY <2>1, <2>3, <2>4, ScgiCardinality DEF s
<1> QED BY <1>1, ScgiInvariant, PTL
=============================================================================
