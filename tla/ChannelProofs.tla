--------------------------- MODULE ChannelProofs ---------------------------
(***************************************************************************)
(* The channel: that the loader takes of a file what the file says,        *)
(* however the buffer cuts its lines (LoadInv), and that the streaming     *)
(* convolution is the convolution, however the waveform is cut into calls  *)
(* (ChannelInv).                                                           *)
(***************************************************************************)
EXTENDS Touchstone, Channel, Induction, SequenceTheorems

(* Cells and the cuts of a line.                                           *)

Plain == {"num", "nan"}
Ends  == {"bang", "nl"}

\* The constants.
LEMMA LoaderFacts ==
  /\ Buf \in Nat \ {0} /\ PerPoint \in Nat \ {0} /\ MaxPoints \in Nat \ {0}
  /\ MaxLines \in Nat
  BY TouchstoneAssumption

\* A part of a line.
LEMMA PartOf ==
  ASSUME NEW p \in Seq(Cells), NEW m \in Nat, NEW n \in 0..Len(p)
  PROVE  /\ SubSeq(p, m + 1, n) \in Seq(Cells)
         /\ Len(SubSeq(p, m + 1, n)) = IF m <= n THEN n - m ELSE 0
         /\ \A i \in 1..(n - m) : SubSeq(p, m + 1, n)[i] = p[m + i]
<1>1. Len(p) \in Nat /\ n \in Nat /\ n <= Len(p)
  BY LenProperties
<1>2. \A i \in (m + 1)..n : p[i] \in Cells
  <2>1. \A i \in (m + 1)..n : i \in 1..Len(p)
    BY <1>1
  <2>2. QED
    BY <2>1, ElementOfSeq
<1>3. m + 1 \in Int /\ n \in Int
  BY <1>1
<1>4. /\ SubSeq(p, m + 1, n) \in Seq(Cells)
      /\ Len(SubSeq(p, m + 1, n)) = IF m + 1 <= n THEN n - (m + 1) + 1 ELSE 0
      /\ \A i \in 1..(n - (m + 1) + 1) : SubSeq(p, m + 1, n)[i] = p[(m + 1) + i - 1]
  BY <1>2, <1>3, SubSeqProperties
<1>5. QED
  BY <1>1, <1>4

\* ... from its start.
LEMMA StartOf ==
  ASSUME NEW p \in Seq(Cells), NEW n \in 0..Len(p)
  PROVE  /\ SubSeq(p, 1, n) \in Seq(Cells) /\ Len(SubSeq(p, 1, n)) = n
         /\ \A i \in 1..n : SubSeq(p, 1, n)[i] = p[i]
<1>1. 0 \in Nat /\ 0 + 1 = 1 /\ Len(p) \in Nat /\ n \in Nat
  BY LenProperties
<1>2. /\ SubSeq(p, 0 + 1, n) \in Seq(Cells)
      /\ Len(SubSeq(p, 0 + 1, n)) = IF 0 <= n THEN n - 0 ELSE 0
      /\ \A i \in 1..(n - 0) : SubSeq(p, 0 + 1, n)[i] = p[0 + i]
  BY <1>1, PartOf
<1>3. \A i \in 1..n : i \in 1..(n - 0) /\ 0 + i = i
  BY <1>1
<1>4. QED
  BY <1>1, <1>2, <1>3

\* Where a line is cut by the first cell of some kinds.
CutAt(p, K, n) ==
    /\ \A i \in 1..n : p[i].kind \notin K
    /\ n < Len(p) => p[n + 1].kind \in K

\* There is such a place ...
LEMMA CutSomewhere ==
  ASSUME NEW p \in Seq(Cells), NEW K
  PROVE  \E n \in 0..Len(p) : CutAt(p, K, n) /\ Before(p, K) = SubSeq(p, 1, n)
<1> DEFINE L    == Len(p)
           good == {i \in 1..L : \A j \in 1..i : p[j].kind \notin K}
           bad  == {i \in 1..L : p[i].kind \in K}
<1>1. L \in Nat /\ DOMAIN p = 1..L
  BY LenProperties
<1>2. Before(p, K) = SubSeq(p, 1, Cardinality(good))
  BY <1>1 DEF Before
<1> HIDE DEF L
<1>3. PICK n \in 0..L : CutAt(p, K, n)
  <2>1. CASE bad = {}
    <3>1. \A i \in 1..L : p[i].kind \notin K
      BY <2>1
    <3>2. L \in 0..L /\ ~(L < L)
      BY <1>1
    <3>3. QED
      BY <3>1, <3>2 DEF CutAt, L
  <2>2. CASE bad # {}
    <3>1. bad \in SUBSET Nat
      BY <1>1
    <3>2. PICK m \in bad : \A k \in bad : m <= k
      <4> HIDE DEF bad
      <4> QED
        BY <2>2, <3>1, LeastMember
    <3>3. m \in 1..L /\ p[m].kind \in K
      OBVIOUS
    <3>4. \A i \in 1..(m - 1) : i \in 1..L /\ ~(m <= i)
      BY <1>1, <3>3
    <3>5. \A i \in 1..(m - 1) : p[i].kind \notin K
      BY <3>2, <3>4
    <3>6. m - 1 \in 0..L /\ (m - 1) + 1 = m
      BY <1>1, <3>3
    <3>7. QED
      BY <3>3, <3>5, <3>6 DEF CutAt, L
  <2>3. QED
    BY <2>1, <2>2
<1>4. good = 1..n
  <2>1. ASSUME NEW i \in 1..n
        PROVE  i \in good
    <3>1. i \in 1..L /\ \A j \in 1..i : j \in 1..n
      BY <1>1
    <3>2. QED
      BY <1>3, <3>1 DEF CutAt
  <2>2. ASSUME NEW i \in good, i \notin 1..n
        PROVE  FALSE
    <3>1. n < L /\ n + 1 \in 1..i
      BY <1>1, <2>2
    <3>2. p[n + 1].kind \in K
      BY <1>3, <3>1 DEF CutAt, L
    <3>3. QED
      BY <2>2, <3>1, <3>2
  <2>3. QED
    BY <2>1, <2>2
<1>5. Cardinality(1..n) = n
  <2>1. 1 \in Int /\ n \in Int /\ n >= 0
    BY <1>1
  <2>2. Cardinality(1..n) = IF 1 > n THEN 0 ELSE n - 1 + 1
    BY <2>1, FS_Interval, Zenon
  <2>3. QED
    BY <2>1, <2>2
<1>6. QED
  BY <1>2, <1>3, <1>4, <1>5 DEF L

\* ... and only one.
LEMMA CutThere ==
  ASSUME NEW p \in Seq(Cells), NEW K, NEW n \in 0..Len(p), CutAt(p, K, n)
  PROVE  Before(p, K) = SubSeq(p, 1, n)
<1>1. PICK k \in 0..Len(p) : CutAt(p, K, k) /\ Before(p, K) = SubSeq(p, 1, k)
  BY CutSomewhere
<1>2. Len(p) \in Nat
  BY LenProperties
<1>3. ASSUME k < n
      PROVE  FALSE
  <2>1. k < Len(p) /\ k + 1 \in 1..n
    BY <1>2, <1>3
  <2>2. QED
    BY <1>1, <2>1 DEF CutAt
<1>4. ASSUME n < k
      PROVE  FALSE
  <2>1. n < Len(p) /\ n + 1 \in 1..k
    BY <1>2, <1>4
  <2>2. QED
    BY <1>1, <2>1 DEF CutAt
<1>5. k = n
  BY <1>2, <1>3, <1>4
<1>6. QED
  BY <1>1, <1>5

\* What the buffer takes of a line and what it leaves: if the cut is in what it
\* takes, the rest does not matter; if not, all of it stays.
LEMMA CutOfParts ==
  ASSUME NEW p \in Seq(Cells), NEW K, NEW n \in 0..Len(p)
  PROVE  LET a == SubSeq(p, 1, n)
             r == SubSeq(p, n + 1, Len(p))
         IN  /\ a \in Seq(Cells) /\ r \in Seq(Cells)
             /\ (\E i \in 1..n : p[i].kind \in K) => Before(p, K) = Before(a, K)
             /\ (\A i \in 1..n : p[i].kind \notin K) =>
                   Before(a, K) = a /\ Before(p, K) = a \o Before(r, K)
<1> DEFINE a == SubSeq(p, 1, n)
           r == SubSeq(p, n + 1, Len(p))
<1>1. Len(p) \in Nat /\ n \in Nat /\ n <= Len(p) /\ Len(p) \in 0..Len(p)
  BY LenProperties
<1>2. a \in Seq(Cells) /\ Len(a) = n /\ \A i \in 1..n : a[i] = p[i]
  BY StartOf
<1>3. r \in Seq(Cells) /\ Len(r) = Len(p) - n /\ \A i \in 1..(Len(p) - n) : r[i] = p[n + i]
  <2>1. Len(r) = IF n <= Len(p) THEN Len(p) - n ELSE 0
    BY <1>1, PartOf
  <2>2. r \in Seq(Cells) /\ \A i \in 1..(Len(p) - n) : r[i] = p[n + i]
    BY <1>1, PartOf
  <2>3. QED
    BY <1>1, <2>1, <2>2
<1> HIDE DEF a, r
<1>4. ASSUME \E i \in 1..n : p[i].kind \in K
      PROVE  Before(p, K) = Before(a, K)
  <2>1. PICK k \in 0..n : CutAt(a, K, k) /\ Before(a, K) = SubSeq(a, 1, k)
    BY <1>2, CutSomewhere
  <2>2. k < n
    <3>1. CASE k = n
      <4>1. \A i \in 1..n : p[i].kind \notin K
        BY <1>2, <2>1, <3>1 DEF CutAt
      <4>2. QED
        BY <1>4, <4>1
    <3>2. QED
      BY <1>1, <3>1
  <2>3. CutAt(p, K, k)
    <3>1. \A i \in 1..k : i \in 1..n
      BY <1>1, <2>2
    <3>2. k + 1 \in 1..n
      BY <1>1, <2>2
    <3>3. QED
      BY <1>2, <2>1, <2>2, <3>1, <3>2 DEF CutAt
  <2>4. k \in 0..Len(p)
    BY <1>1
  <2>5. Before(p, K) = SubSeq(p, 1, k)
    BY <2>3, <2>4, CutThere
  <2>6. SubSeq(a, 1, k) = SubSeq(p, 1, k)
    <3>1. /\ SubSeq(a, 1, k) \in Seq(Cells) /\ Len(SubSeq(a, 1, k)) = k
          /\ \A i \in 1..k : SubSeq(a, 1, k)[i] = a[i]
      BY <1>2, StartOf
    <3>2. /\ SubSeq(p, 1, k) \in Seq(Cells) /\ Len(SubSeq(p, 1, k)) = k
          /\ \A i \in 1..k : SubSeq(p, 1, k)[i] = p[i]
      BY <2>4, StartOf
    <3>3. \A i \in 1..k : i \in 1..n
      BY <1>1
    <3>4. \A i \in 1..k : SubSeq(a, 1, k)[i] = SubSeq(p, 1, k)[i]
      BY <1>2, <3>1, <3>2, <3>3
    <3>5. QED
      BY <3>1, <3>2, <3>4, SeqEqual
  <2>7. QED
    BY <2>1, <2>5, <2>6
<1>5. ASSUME \A i \in 1..n : p[i].kind \notin K
      PROVE  Before(a, K) = a /\ Before(p, K) = a \o Before(r, K)
  <2>1. Before(a, K) = a
    <3>1. CutAt(a, K, n)
      BY <1>1, <1>2, <1>5 DEF CutAt
    <3>2. Before(a, K) = SubSeq(a, 1, n)
      BY <1>1, <1>2, <3>1, CutThere
    <3>3. /\ SubSeq(a, 1, n) \in Seq(Cells) /\ Len(SubSeq(a, 1, n)) = n
          /\ \A i \in 1..n : SubSeq(a, 1, n)[i] = a[i]
      BY <1>1, <1>2, StartOf
    <3>4. SubSeq(a, 1, n) = a
      BY <1>2, <3>3, SeqEqual
    <3>5. QED
      BY <3>2, <3>4
  <2>2. PICK k \in 0..(Len(p) - n) : CutAt(r, K, k) /\ Before(r, K) = SubSeq(r, 1, k)
    BY <1>3, CutSomewhere
  <2>3. n + k \in 0..Len(p)
    BY <1>1
  <2>4. CutAt(p, K, n + k)
    <3>1. ASSUME NEW i \in 1..(n + k) PROVE p[i].kind \notin K
      <4>1. CASE i \in 1..n
        BY <1>5, <4>1
      <4>2. CASE i \notin 1..n
        <5>1. i - n \in 1..k /\ i - n \in 1..(Len(p) - n) /\ n + (i - n) = i
          BY <1>1, <4>2
        <5>2. r[i - n] = p[i]
          BY <1>3, <5>1
        <5>3. QED
          BY <2>2, <5>1, <5>2 DEF CutAt
      <4>3. QED
        BY <4>1, <4>2
    <3>2. ASSUME n + k < Len(p) PROVE p[(n + k) + 1].kind \in K
      <4>1. k < Len(p) - n /\ k + 1 \in 1..(Len(p) - n) /\ n + (k + 1) = (n + k) + 1
        BY <1>1, <3>2
      <4>2. r[k + 1] = p[(n + k) + 1]
        BY <1>3, <4>1
      <4>3. QED
        BY <1>3, <2>2, <4>1, <4>2 DEF CutAt
    <3>3. QED
      BY <3>1, <3>2 DEF CutAt
  <2>5. Before(p, K) = SubSeq(p, 1, n + k)
    BY <2>3, <2>4, CutThere
  <2>6. /\ SubSeq(p, 1, n + k) \in Seq(Cells) /\ Len(SubSeq(p, 1, n + k)) = n + k
        /\ \A i \in 1..(n + k) : SubSeq(p, 1, n + k)[i] = p[i]
    BY <2>3, StartOf
  <2>7. /\ SubSeq(r, 1, k) \in Seq(Cells) /\ Len(SubSeq(r, 1, k)) = k
        /\ \A i \in 1..k : SubSeq(r, 1, k)[i] = r[i]
    BY <1>3, StartOf
  <2>8. /\ a \o SubSeq(r, 1, k) \in Seq(Cells) /\ Len(a \o SubSeq(r, 1, k)) = n + k
        /\ \A i \in 1..(n + k) : (a \o SubSeq(r, 1, k))[i] =
                 IF i <= n THEN a[i] ELSE SubSeq(r, 1, k)[i - n]
    <3> DEFINE t == SubSeq(r, 1, k)
    <3>1. t \in Seq(Cells) /\ Len(t) = k
      BY <2>7
    <3> HIDE DEF t
    <3>2. /\ a \o t \in Seq(Cells) /\ Len(a \o t) = Len(a) + Len(t)
          /\ \A i \in 1..(Len(a) + Len(t)) : (a \o t)[i] =
                 IF i <= Len(a) THEN a[i] ELSE t[i - Len(a)]
      BY <1>2, <3>1, ConcatProperties
    <3>3. /\ a \o t \in Seq(Cells) /\ Len(a \o t) = n + k
          /\ \A i \in 1..(n + k) : (a \o t)[i] = IF i <= n THEN a[i] ELSE t[i - n]
      BY <1>2, <3>1, <3>2
    <3>4. QED
      BY <3>3 DEF t
  <2>9. ASSUME NEW i \in 1..(n + k)
        PROVE  SubSeq(p, 1, n + k)[i] = (a \o SubSeq(r, 1, k))[i]
    <3>1. CASE i <= n
      <4>1. i \in 1..n
        BY <1>1, <3>1
      <4>2. QED
        BY <1>2, <2>6, <2>8, <3>1, <4>1
    <3>2. CASE ~(i <= n)
      <4>1. i - n \in 1..k /\ i - n \in 1..(Len(p) - n) /\ n + (i - n) = i
        BY <1>1, <3>2
      <4>2. r[i - n] = p[i] /\ SubSeq(r, 1, k)[i - n] = r[i - n]
        BY <1>3, <2>7, <4>1
      <4>3. QED
        BY <2>6, <2>8, <3>2, <4>2
    <3>3. QED
      BY <3>1, <3>2
  <2>10. SubSeq(p, 1, n + k) = a \o SubSeq(r, 1, k)
    BY <2>6, <2>8, <2>9, SeqEqual
  <2>11. QED
    BY <2>1, <2>2, <2>5, <2>10
<1>6. QED
  BY <1>2, <1>3, <1>4, <1>5 DEF a, r

\* Up to the cut there are cells, and none of them is of the kinds; if that is
\* nothing, the first cell is.
LEMMA BeforeTyped ==
  ASSUME NEW p \in Seq(Cells), NEW K
  PROVE  /\ Before(p, K) \in Seq(Cells)
         /\ \A k \in Kinds(Before(p, K)) : k \in Kinds(p) /\ k \notin K
<1>1. PICK n \in 0..Len(p) : CutAt(p, K, n) /\ Before(p, K) = SubSeq(p, 1, n)
  BY CutSomewhere
<1> DEFINE b == SubSeq(p, 1, n)
<1>2. b \in Seq(Cells) /\ Len(b) = n /\ \A i \in 1..n : b[i] = p[i]
  BY StartOf
<1> HIDE DEF b
<1>3. /\ DOMAIN b = 1..n /\ DOMAIN p = 1..Len(p)
      /\ \A i \in 1..n : i \in 1..Len(p)
  BY <1>2, LenProperties
<1>4. \A k \in Kinds(b) : k \in Kinds(p) /\ k \notin K
  BY <1>1, <1>2, <1>3 DEF Kinds, CutAt
<1>5. QED
  BY <1>1, <1>2, <1>4 DEF b

LEMMA BeforeNothing ==
  ASSUME NEW K
  PROVE  Before(<<>>, K) = <<>>
<1>1. <<>> \in Seq(Cells) /\ Len(<<>>) = 0
  BY EmptySeq
<1>2. 0 \in 0..Len(<<>>) /\ CutAt(<<>>, K, 0)
  BY <1>1 DEF CutAt
<1>3. Before(<<>>, K) = SubSeq(<<>>, 1, 0)
  BY <1>1, <1>2, CutThere
<1>4. SubSeq(<<>>, 1, 0) \in Seq(Cells) /\ Len(SubSeq(<<>>, 1, 0)) = 0
  BY <1>1, <1>2, StartOf
<1>5. QED
  BY <1>3, <1>4, EmptySeq

LEMMA KindsJoin ==
  ASSUME NEW a \in Seq(Cells), NEW b \in Seq(Cells)
  PROVE  Kinds(a \o b) = Kinds(a) \cup Kinds(b)
<1>1. /\ Len(a) \in Nat /\ Len(b) \in Nat
      /\ DOMAIN a = 1..Len(a) /\ DOMAIN b = 1..Len(b)
  BY LenProperties
<1>2. /\ a \o b \in Seq(Cells) /\ Len(a \o b) = Len(a) + Len(b)
      /\ \A i \in 1..(Len(a) + Len(b)) :
            (a \o b)[i] = IF i <= Len(a) THEN a[i] ELSE b[i - Len(a)]
  BY ConcatProperties
<1>3. DOMAIN (a \o b) = 1..(Len(a) + Len(b))
  BY <1>2, LenProperties
<1>4. ASSUME NEW i \in 1..(Len(a) + Len(b))
      PROVE  (a \o b)[i].kind \in Kinds(a) \cup Kinds(b)
  <2>1. CASE i <= Len(a)
    <3>1. i \in 1..Len(a) /\ (a \o b)[i] = a[i]
      BY <1>1, <1>2, <2>1
    <3>2. QED
      BY <1>1, <3>1 DEF Kinds
  <2>2. CASE ~(i <= Len(a))
    <3>1. i - Len(a) \in 1..Len(b) /\ (a \o b)[i] = b[i - Len(a)]
      BY <1>1, <1>2, <2>2
    <3>2. QED
      BY <1>1, <3>1 DEF Kinds
  <2>3. QED
    BY <2>1, <2>2
<1>5. ASSUME NEW i \in 1..Len(a)
      PROVE  a[i].kind \in Kinds(a \o b)
  <2>1. i \in 1..(Len(a) + Len(b)) /\ i <= Len(a)
    BY <1>1
  <2>2. (a \o b)[i] = a[i]
    BY <1>2, <2>1
  <2>3. QED
    BY <1>3, <2>1, <2>2 DEF Kinds
<1>6. ASSUME NEW i \in 1..Len(b)
      PROVE  b[i].kind \in Kinds(a \o b)
  <2>1. /\ Len(a) + i \in 1..(Len(a) + Len(b)) /\ ~(Len(a) + i <= Len(a))
        /\ (Len(a) + i) - Len(a) = i
    BY <1>1
  <2>2. (a \o b)[Len(a) + i] = b[i]
    BY <1>2, <2>1
  <2>3. QED
    BY <1>3, <2>1, <2>2 DEF Kinds
<1>7. \A k : k \in Kinds(a \o b) => k \in Kinds(a) \cup Kinds(b)
  BY <1>3, <1>4 DEF Kinds
<1>8. \A k : k \in Kinds(a) => k \in Kinds(a \o b)
  BY <1>1, <1>5 DEF Kinds
<1>9. \A k : k \in Kinds(b) => k \in Kinds(a \o b)
  BY <1>1, <1>6 DEF Kinds
<1>10. QED
  <2> DEFINE A == Kinds(a)
             B == Kinds(b)
             C == Kinds(a \o b)
  <2> HIDE DEF A, B, C
  <2>1. /\ \A k : k \in C => k \in A \cup B
        /\ \A k : k \in A => k \in C
        /\ \A k : k \in B => k \in C
    BY <1>7, <1>8, <1>9 DEF A, B, C
  <2>2. C = A \cup B
    BY <2>1
  <2>3. QED
    BY <2>2 DEF A, B, C

LEMMA EndsAtOnce ==
  ASSUME NEW p \in Seq(Cells), Len(p) # 0, Before(p, Ends) = <<>>
  PROVE  "bang" \in Kinds(p) \/ "nl" \in Kinds(p)
<1>1. PICK n \in 0..Len(p) : CutAt(p, Ends, n) /\ Before(p, Ends) = SubSeq(p, 1, n)
  BY CutSomewhere
<1>2. n = 0
  <2>1. Len(SubSeq(p, 1, n)) = n
    BY StartOf
  <2>2. QED
    BY <1>1, <2>1
<1>3. 0 < Len(p) /\ 1 \in DOMAIN p
  BY LenProperties
<1>4. p[1].kind \in Ends
  BY <1>1, <1>2, <1>3 DEF CutAt
<1>5. QED
  BY <1>3, <1>4 DEF Kinds, Ends

\* The numbers of some cells.
LEMMA IdsOf ==
  ASSUME NEW a \in Seq(Cells)
  PROVE  /\ Ids(a) \in Seq(Int) /\ Len(Ids(a)) = Len(a)
         /\ \A i \in 1..Len(a) : Ids(a)[i] = a[i].id
<1>1. Len(a) \in Nat /\ DOMAIN a = 1..Len(a)
  BY LenProperties
<1>2. \A i \in 1..Len(a) : a[i].id \in Int
  <2>1. \A i \in 1..Len(a) : a[i] \in Cells
    BY ElementOfSeq
  <2>2. QED
    BY <2>1 DEF Cells
<1>3. Ids(a) = [i \in 1..Len(a) |-> a[i].id]
  BY <1>1 DEF Ids
<1>4. QED
  BY <1>1, <1>2, <1>3

LEMMA IdsJoin ==
  /\ Ids(<<>>) = <<>>
  /\ \A a, b \in Seq(Cells) : Ids(a \o b) = Ids(a) \o Ids(b)
<1>1. Ids(<<>>) = <<>>
  BY DEF Ids
<1>2. ASSUME NEW a \in Seq(Cells), NEW b \in Seq(Cells)
      PROVE  Ids(a \o b) = Ids(a) \o Ids(b)
  <2>1. Len(a) \in Nat /\ Len(b) \in Nat
    BY LenProperties
  <2>2. /\ a \o b \in Seq(Cells) /\ Len(a \o b) = Len(a) + Len(b)
        /\ \A i \in 1..(Len(a) + Len(b)) :
              (a \o b)[i] = IF i <= Len(a) THEN a[i] ELSE b[i - Len(a)]
    BY ConcatProperties
  <2>3. /\ Ids(a) \in Seq(Int) /\ Len(Ids(a)) = Len(a)
        /\ \A i \in 1..Len(a) : Ids(a)[i] = a[i].id
    BY IdsOf
  <2>4. /\ Ids(b) \in Seq(Int) /\ Len(Ids(b)) = Len(b)
        /\ \A i \in 1..Len(b) : Ids(b)[i] = b[i].id
    BY IdsOf
  <2>5. /\ Ids(a \o b) \in Seq(Int) /\ Len(Ids(a \o b)) = Len(a) + Len(b)
        /\ \A i \in 1..(Len(a) + Len(b)) : Ids(a \o b)[i] = (a \o b)[i].id
    BY <2>2, IdsOf
  <2> DEFINE u == Ids(a)
             v == Ids(b)
             w == Ids(a \o b)
  <2> HIDE DEF u, v, w
  <2>6. /\ u \o v \in Seq(Int) /\ Len(u \o v) = Len(u) + Len(v)
        /\ \A i \in 1..(Len(u) + Len(v)) :
              (u \o v)[i] = IF i <= Len(u) THEN u[i] ELSE v[i - Len(u)]
    <3>1. u \in Seq(Int) /\ v \in Seq(Int)
      BY <2>3, <2>4 DEF u, v
    <3>2. QED
      BY <3>1, ConcatProperties
  <2>7. Len(u) = Len(a) /\ Len(v) = Len(b) /\ Len(w) = Len(a) + Len(b) /\ w \in Seq(Int)
    BY <2>3, <2>4, <2>5 DEF u, v, w
  <2>8. ASSUME NEW i \in 1..(Len(a) + Len(b))
        PROVE  w[i] = (u \o v)[i]
    <3>1. CASE i <= Len(a)
      <4>1. i \in 1..Len(a)
        BY <2>1, <3>1
      <4>2. w[i] = a[i].id
        BY <2>2, <2>5, <3>1 DEF w
      <4>3. (u \o v)[i] = u[i]
        BY <2>6, <2>7, <3>1
      <4>4. u[i] = a[i].id
        BY <2>3, <4>1 DEF u
      <4>5. QED
        BY <4>2, <4>3, <4>4
    <3>2. CASE ~(i <= Len(a))
      <4>1. i - Len(a) \in 1..Len(b)
        BY <2>1, <3>2
      <4>2. w[i] = b[i - Len(a)].id
        BY <2>2, <2>5, <3>2 DEF w
      <4>3. (u \o v)[i] = v[i - Len(a)]
        BY <2>6, <2>7, <3>2
      <4>4. v[i - Len(a)] = b[i - Len(a)].id
        BY <2>4, <4>1 DEF v
      <4>5. QED
        BY <4>2, <4>3, <4>4
    <3>3. QED
      BY <3>1, <3>2
  <2>9. w = u \o v
    BY <2>6, <2>7, <2>8, SeqEqual
  <2>10. QED
    BY <2>9 DEF u, v, w
<1>3. QED
  BY <1>1, <1>2

\* Joining three runs of numbers.
Joined(a, b, c) == (a \o b) \o c = a \o (b \o c)

LEMMA JoinedThrice ==
  ASSUME NEW a \in Seq(Int), NEW b \in Seq(Int), NEW c \in Seq(Int)
  PROVE  Joined(a, b, c)
<1>1. (a \o b) \o c = a \o (b \o c)
  BY ConcatAssociative
<1>2. QED
  BY <1>1 DEF Joined
-----------------------------------------------------------------------------
(* The data loop.                                                          *)

\* What a cell does to the loader, field by field.
HasGathered(g, s, h, id) ==
    /\ g.have = h /\ g.taken = Append(s.taken, id)
    /\ g.inComment = s.inComment /\ g.inOption = s.inOption
    /\ g.continuing = s.continuing /\ g.result = s.result

LEMMA GatheredFields ==
  ASSUME NEW s \in Loaders, NEW h \in 0..(PerPoint - 1), NEW n \in 0..MaxPoints,
         NEW id \in Int
  PROVE  /\ Gathered(s, h, n, id) \in Loaders
         /\ HasGathered(Gathered(s, h, n, id), s, h, id)
<1>1. Append(s.taken, id) \in Seq(Int)
  <2>1. s.taken \in Seq(Int)
    BY DEF Loaders
  <2>2. QED
    BY <2>1, AppendProperties
<1> DEFINE t == Append(s.taken, id)
<1>2. [s EXCEPT !.have = h, !.npt = n, !.taken = Append(@, id)] =
        [[[s EXCEPT !.have = h] EXCEPT !.npt = n] EXCEPT !.taken = t]
  BY DEF Loaders
<1> HIDE DEF t
<1>3. [s EXCEPT !.have = h] =
        [inComment |-> s.inComment, inOption |-> s.inOption, continuing |-> s.continuing,
         have |-> h, npt |-> s.npt, taken |-> s.taken, result |-> s.result]
  BY DEF Loaders
<1> DEFINE a == [s EXCEPT !.have = h]
           b == [a EXCEPT !.npt = n]
<1>4. b = [inComment |-> s.inComment, inOption |-> s.inOption, continuing |-> s.continuing,
           have |-> h, npt |-> n, taken |-> s.taken, result |-> s.result]
  <2> HIDE DEF a
  <2>1. a = [inComment |-> s.inComment, inOption |-> s.inOption, continuing |-> s.continuing,
             have |-> h, npt |-> s.npt, taken |-> s.taken, result |-> s.result]
    BY <1>3 DEF a
  <2>2. QED
    BY <2>1
<1>5. [[[s EXCEPT !.have = h] EXCEPT !.npt = n] EXCEPT !.taken = t] =
        [inComment |-> s.inComment, inOption |-> s.inOption, continuing |-> s.continuing,
         have |-> h, npt |-> n, taken |-> t, result |-> s.result]
  <2> HIDE DEF b
  <2>1. [b EXCEPT !.taken = t] =
        [inComment |-> s.inComment, inOption |-> s.inOption, continuing |-> s.continuing,
         have |-> h, npt |-> n, taken |-> t, result |-> s.result]
    BY <1>4
  <2>2. QED
    BY <2>1 DEF a, b
<1>6. t \in Seq(Int)
  BY <1>1 DEF t
<1>7. Gathered(s, h, n, id) =
        [inComment |-> s.inComment, inOption |-> s.inOption, continuing |-> s.continuing,
         have |-> h, npt |-> n, taken |-> t, result |-> s.result]
  BY <1>2, <1>5 DEF Gathered
<1>8. QED
  BY <1>6, <1>7 DEF Loaders, HasGathered, t

LEMMA FailedFields ==
  ASSUME NEW s \in Loaders
  PROVE  GivenUp(s) \in Loaders /\ GivenUp(s).result = "failed"
  BY DEF GivenUp, Loaders

Readers == [at : Loaders, on : BOOLEAN]

LEMMA CellTyped ==
  ASSUME NEW w \in Readers, NEW c \in Cells
  PROVE  TakeCell(w, c) \in Readers
<1>1. w.at \in Loaders /\ w.on \in BOOLEAN /\ c.id \in Int
  BY DEF Readers, Cells
<1>2. w.at.have \in 0..(PerPoint - 1) /\ w.at.npt \in 0..MaxPoints
  BY <1>1 DEF Loaders
<1>3. \A s \in Loaders, b \in BOOLEAN : [at |-> s, on |-> b] \in Readers
  BY DEF Readers
<1>4. CASE ~w.on
  BY <1>4 DEF TakeCell
<1>5. CASE w.on /\ c.kind # "num"
  <2>1. TakeCell(w, c) \in {[at |-> GivenUp(w.at), on |-> FALSE], [at |-> w.at, on |-> FALSE]}
    BY <1>5 DEF TakeCell
  <2>2. QED
    BY <1>1, <1>3, <2>1, FailedFields
<1>6. CASE w.on /\ c.kind = "num" /\ w.at.have + 1 < PerPoint
  <2>1. TakeCell(w, c) = [at |-> Gathered(w.at, w.at.have + 1, w.at.npt, c.id), on |-> TRUE]
    BY <1>6 DEF TakeCell
  <2>2. w.at.have + 1 \in 0..(PerPoint - 1)
    BY <1>2, <1>6, LoaderFacts
  <2>3. Gathered(w.at, w.at.have + 1, w.at.npt, c.id) \in Loaders
    BY <1>1, <1>2, <2>2, GatheredFields
  <2>4. QED
    BY <1>3, <2>1, <2>3
<1>7. CASE w.on /\ c.kind = "num" /\ ~(w.at.have + 1 < PerPoint) /\ w.at.npt >= MaxPoints
  <2>1. TakeCell(w, c) = [at |-> GivenUp(w.at), on |-> FALSE]
    BY <1>7 DEF TakeCell
  <2>2. QED
    BY <1>1, <1>3, <2>1, FailedFields
<1>8. CASE w.on /\ c.kind = "num" /\ ~(w.at.have + 1 < PerPoint) /\ ~(w.at.npt >= MaxPoints)
  <2>1. TakeCell(w, c) = [at |-> Gathered(w.at, 0, w.at.npt + 1, c.id), on |-> TRUE]
    BY <1>8 DEF TakeCell
  <2>2. w.at.npt + 1 \in 0..MaxPoints /\ 0 \in 0..(PerPoint - 1)
    BY <1>2, <1>8, LoaderFacts
  <2>3. Gathered(w.at, 0, w.at.npt + 1, c.id) \in Loaders
    BY <1>1, <2>2, GatheredFields
  <2>4. QED
    BY <1>3, <2>1, <2>3
<1>9. QED
  BY <1>4, <1>5, <1>6, <1>7, <1>8

\* The loop is a recursion over the cells.
LEMMA TakeSteps ==
  ASSUME NEW st \in Loaders, NEW cells \in Seq(Cells)
  PROVE  \E f \in [0..Len(cells) -> Readers] :
            /\ f[0] = [at |-> st, on |-> TRUE]
            /\ \A i \in 1..Len(cells) : f[i] = TakeCell(f[i - 1], cells[i])
            /\ Take(st, cells) = f[Len(cells)].at
<1> DEFINE L     == Len(cells)
           start == [at |-> st, on |-> TRUE]
           next  == [x \in Readers \X (1..L) |-> TakeCell(x[1], cells[x[2]])]
           Fits(g) == g = [i \in 0..L |-> IF i = 0 THEN start ELSE TakeCell(g[i - 1], cells[i])]
<1>1. L \in Nat /\ \A i \in 1..L : cells[i] \in Cells
  BY LenProperties, ElementOfSeq
<1>2. start \in Readers
  BY DEF Readers
<1>3. next \in [Readers \X (1..L) -> Readers]
  BY <1>1, CellTyped
<1>4. PICK f \in [0..L -> Readers] :
         f[0] = start /\ \A i \in 1..L : f[i] = next[<<f[i - 1], i>>]
  <2>1. L \in Nat
    BY <1>1
  <2> HIDE DEF next, start, L
  <2>2. \E f : Runs(f, Readers, L, start, next)
    BY <2>1, <1>2, <1>3, Recursion
  <2>3. QED
    BY <2>2 DEF Runs
<1>5. \A i \in 1..L : f[i] = TakeCell(f[i - 1], cells[i])
  <2>1. ASSUME NEW i \in 1..L
        PROVE  f[i] = TakeCell(f[i - 1], cells[i])
    <3>1. i - 1 \in 0..L
      BY <1>1
    <3>2. <<f[i - 1], i>> \in Readers \X (1..L)
      BY <3>1
    <3>3. next[<<f[i - 1], i>>] = TakeCell(f[i - 1], cells[i])
      BY <3>2
    <3>4. QED
      BY <1>4, <3>3
  <2>2. QED
    BY <2>1
<1>6. Fits(f)
  <2>1. ASSUME NEW i \in 0..L
        PROVE  f[i] = IF i = 0 THEN start ELSE TakeCell(f[i - 1], cells[i])
    <3>1. i = 0 \/ i \in 1..L
      BY <1>1
    <3>2. i \in 1..L => i # 0
      BY <1>1
    <3>3. QED
      BY <1>4, <1>5, <3>1, <3>2
  <2>2. QED
    BY <2>1
<1>7. \A g : Fits(g) => g = f
  <2>1. ASSUME NEW g, Fits(g)
        PROVE  g = f
    <3> DEFINE Same == {i \in 0..L : g[i] = f[i]}
    <3>7. /\ DOMAIN g = 0..L
          /\ \A i \in 0..L : g[i] = IF i = 0 THEN start ELSE TakeCell(g[i - 1], cells[i])
      BY <2>1, Zenon
    <3>8. \A i \in 1..L : i \in 0..L /\ i # 0
      BY <1>1
    <3>1. g = [i \in 0..L |-> g[i]] /\ g[0] = start
      <4>1. g = [i \in 0..L |-> g[i]]
        BY <2>1, <3>7, Zenon
      <4>2. 0 \in 0..L
        BY <1>1
      <4>3. QED
        BY <3>7, <4>1, <4>2
    <3>2. ASSUME NEW i \in 1..L
          PROVE  g[i] = TakeCell(g[i - 1], cells[i])
      <4>1. i \in 0..L /\ i # 0
        BY <3>8
      <4>2. g[i] = IF i = 0 THEN start ELSE TakeCell(g[i - 1], cells[i])
        BY <3>7, <4>1, Zenon
      <4>3. QED
        BY <4>1, <4>2, Zenon
    <3>3. 0 \in Same
      <4>1. 0 \in 0..L /\ g[0] = f[0]
        BY <1>1, <1>4, <3>1
      <4>2. QED
        BY <4>1, Zenon
    <3>4. ASSUME NEW k \in 0..(L - 1), k \in Same
          PROVE  k + 1 \in Same
      <4>1. k + 1 \in 1..L /\ (k + 1) - 1 = k
        BY <1>1
      <4>2. g[k + 1] = f[k + 1]
        BY <1>5, <3>2, <3>4, <4>1
      <4>3. QED
        BY <4>1, <4>2
    <3>5. \A k \in 0..L : k \in Same
      <4> HIDE DEF Same, L
      <4>1. QED
        BY <1>1, <3>3, <3>4, Climb
    <3>6. QED
      BY <3>1, <3>5
  <2>2. QED
    BY <2>1
<1>8. Take(st, cells) = (CHOOSE g : Fits(g))[L].at
  BY DEF Take
<1>9. (CHOOSE g : Fits(g)) = f
  <2> HIDE DEF Fits
  <2>1. QED
    BY <1>6, <1>7
<1>10. QED
  BY <1>4, <1>5, <1>8, <1>9

\* The start of a line, one cell longer.
LEMMA OneMore ==
  ASSUME NEW cells \in Seq(Cells), NEW i \in 1..Len(cells), NEW t \in Seq(Int)
  PROVE  /\ Ids(SubSeq(cells, 1, i - 1)) \in Seq(Int)
         /\ Append(t \o Ids(SubSeq(cells, 1, i - 1)), cells[i].id) =
               t \o Ids(SubSeq(cells, 1, i))
<1> DEFINE a == SubSeq(cells, 1, i - 1)
           b == SubSeq(cells, 1, i)
           x == Ids(a)
           y == Ids(b)
<1>1. Len(cells) \in Nat /\ i - 1 \in 0..Len(cells) /\ i \in 0..Len(cells) /\ Len(t) \in Nat
  BY LenProperties
<1>2. a \in Seq(Cells) /\ Len(a) = i - 1 /\ \A j \in 1..(i - 1) : a[j] = cells[j]
  BY <1>1, StartOf
<1>3. b \in Seq(Cells) /\ Len(b) = i /\ \A j \in 1..i : b[j] = cells[j]
  BY <1>1, StartOf
<1> HIDE DEF a, b
<1>4. x \in Seq(Int) /\ Len(x) = i - 1 /\ \A j \in 1..(i - 1) : x[j] = a[j].id
  BY <1>2, IdsOf
<1>5. y \in Seq(Int) /\ Len(y) = i /\ \A j \in 1..i : y[j] = b[j].id
  BY <1>3, IdsOf
<1> HIDE DEF x, y
<1>6. /\ t \o x \in Seq(Int) /\ Len(t \o x) = Len(t) + Len(x)
      /\ \A j \in 1..(Len(t) + Len(x)) :
            (t \o x)[j] = IF j <= Len(t) THEN t[j] ELSE x[j - Len(t)]
  BY <1>4, ConcatProperties
<1>7. /\ t \o y \in Seq(Int) /\ Len(t \o y) = Len(t) + Len(y)
      /\ \A j \in 1..(Len(t) + Len(y)) :
            (t \o y)[j] = IF j <= Len(t) THEN t[j] ELSE y[j - Len(t)]
  BY <1>5, ConcatProperties
<1> DEFINE u == t \o x
           w == t \o y
           e == cells[i].id
<1>8. e \in Int
  <2>1. cells[i] \in Cells
    BY ElementOfSeq
  <2>2. QED
    BY <2>1 DEF Cells
<1>9. y[i] = e /\ \A j \in 1..(i - 1) : y[j] = x[j]
  <2>1. i \in 1..i /\ \A j \in 1..(i - 1) : j \in 1..i
    BY <1>1
  <2>2. y[i] = b[i].id /\ b[i] = cells[i]
    BY <1>3, <1>5, <2>1
  <2>3. ASSUME NEW j \in 1..(i - 1)
        PROVE  y[j] = x[j]
    <3>1. y[j] = b[j].id /\ b[j] = cells[j]
      BY <1>3, <1>5, <2>1
    <3>2. x[j] = a[j].id /\ a[j] = cells[j]
      BY <1>2, <1>4
    <3>3. QED
      BY <3>1, <3>2
  <2>4. QED
    BY <2>2, <2>3
<1> HIDE DEF u, w, e
<1>10. u \in Seq(Int) /\ Len(u) = Len(t) + (i - 1)
  BY <1>4, <1>6 DEF u
<1>11. w \in Seq(Int) /\ Len(w) = Len(t) + i
  BY <1>5, <1>7 DEF w
<1>12. /\ Append(u, e) \in Seq(Int) /\ Len(Append(u, e)) = Len(u) + 1
       /\ \A j \in 1..Len(u) : Append(u, e)[j] = u[j]
       /\ Append(u, e)[Len(u) + 1] = e
  BY <1>8, <1>10, AppendProperties
<1>13. Len(Append(u, e)) = Len(w)
  BY <1>1, <1>10, <1>11, <1>12
<1>14. ASSUME NEW j \in 1..(Len(t) + i)
       PROVE  Append(u, e)[j] = w[j]
  <2>1. CASE j = Len(t) + i
    <3>1. Append(u, e)[j] = e
      <4>1. j = Len(u) + 1
        BY <1>1, <1>10, <2>1
      <4>2. QED
        BY <1>12, <4>1
    <3>2. j \in 1..(Len(t) + Len(y)) /\ ~(j <= Len(t)) /\ j - Len(t) = i
      BY <1>1, <1>5, <2>1
    <3>3. w[j] = y[i]
      BY <1>7, <3>2 DEF w
    <3>4. QED
      BY <1>9, <3>1, <3>3
  <2>2. CASE j # Len(t) + i /\ ~(j <= Len(t))
    <3>1. j \in 1..Len(u) /\ j \in 1..(Len(t) + Len(x)) /\ j \in 1..(Len(t) + Len(y))
          /\ j - Len(t) \in 1..(i - 1)
      BY <1>1, <1>4, <1>5, <1>10, <2>2
    <3>2. u[j] = x[j - Len(t)]
      BY <1>6, <2>2, <3>1 DEF u
    <3>3. w[j] = y[j - Len(t)]
      BY <1>7, <2>2, <3>1 DEF w
    <3>4. QED
      BY <1>9, <1>12, <3>1, <3>2, <3>3
  <2>3. CASE j <= Len(t)
    <3>1. j \in 1..Len(u) /\ j \in 1..(Len(t) + Len(x)) /\ j \in 1..(Len(t) + Len(y))
      BY <1>1, <1>4, <1>5, <1>10, <2>3
    <3>2. u[j] = t[j]
      BY <1>6, <2>3, <3>1 DEF u
    <3>3. w[j] = t[j]
      BY <1>7, <2>3, <3>1 DEF w
    <3>4. QED
      BY <1>12, <3>1, <3>2, <3>3
  <2>4. QED
    BY <1>1, <2>1, <2>2, <2>3
<1>15. Append(u, e) = w
  BY <1>11, <1>12, <1>13, <1>14, SeqEqual
<1>16. QED
  BY <1>4, <1>15 DEF u, w, e, x, y, a, b

\* The loader after m of the cells, all numbers.
Took(s, st, cells, m) ==
    /\ \A i \in 1..m : cells[i].kind = "num"
    /\ s.taken = st.taken \o Ids(SubSeq(cells, 1, m))
    /\ s.have = Len(s.taken) % PerPoint
    /\ s.inComment = st.inComment /\ s.inOption = st.inOption
    /\ s.continuing = st.continuing /\ s.result = st.result
\* ... and then at a cell that is no number, outside any record.
Halted(s, st, cells, m) ==
    /\ Took(s, st, cells, m)
    /\ m < Len(cells) => cells[m + 1].kind \notin Plain /\ s.have = 0
\* The data loop having looked at i cells.
Reached(w, st, cells, i) ==
    \/ w.on /\ Took(w.at, st, cells, i)
    \/ ~w.on /\ w.at.result = "failed"
    \/ ~w.on /\ \E m \in 0..(i - 1) : Halted(w.at, st, cells, m)

LEMMA CellReaches ==
  ASSUME NEW st \in Loaders, NEW cells \in Seq(Cells), NEW i \in 1..Len(cells),
         NEW w \in Readers, Reached(w, st, cells, i - 1)
  PROVE  Reached(TakeCell(w, cells[i]), st, cells, i)
<1> DEFINE c == cells[i]
<1>1. /\ w.at \in Loaders /\ w.on \in BOOLEAN /\ c \in Cells /\ c.id \in Int
      /\ Len(cells) \in Nat
  <2>1. c \in Cells
    BY ElementOfSeq
  <2>2. QED
    BY <2>1, LenProperties DEF Readers, Cells
<1>2. /\ w.at.have \in 0..(PerPoint - 1) /\ w.at.npt \in 0..MaxPoints
      /\ w.at.taken \in Seq(Int) /\ st.taken \in Seq(Int)
  BY <1>1 DEF Loaders
<1> HIDE DEF c
<1>3. CASE ~w.on
  <2>1. TakeCell(w, c) = w
    BY <1>3 DEF TakeCell
  <2>2. CASE w.at.result = "failed"
    BY <1>3, <2>1, <2>2 DEF Reached, c
  <2>3. CASE w.at.result # "failed"
    <3>1. PICK m \in 0..((i - 1) - 1) : Halted(w.at, st, cells, m)
      BY <1>3, <2>3 DEF Reached
    <3>2. m \in 0..(i - 1)
      BY <1>1
    <3>3. QED
      BY <1>3, <2>1, <3>1, <3>2 DEF Reached, c
  <2>4. QED
    BY <2>2, <2>3
<1>4. CASE w.on
  <2>1. Took(w.at, st, cells, i - 1)
    BY <1>4 DEF Reached
  <2>2. CASE c.kind # "num"
    <3>1. CASE c.kind = "nan" \/ w.at.have # 0
      <4>1. TakeCell(w, c) = [at |-> GivenUp(w.at), on |-> FALSE]
        BY <1>4, <2>2, <3>1 DEF TakeCell
      <4>2. ~TakeCell(w, c).on /\ TakeCell(w, c).at.result = "failed"
        BY <1>1, <4>1, FailedFields
      <4>3. QED
        BY <4>2 DEF Reached, c
    <3>2. CASE ~(c.kind = "nan" \/ w.at.have # 0)
      <4>1. TakeCell(w, c) = [at |-> w.at, on |-> FALSE]
        BY <1>4, <2>2, <3>2 DEF TakeCell
      <4>2. ~TakeCell(w, c).on /\ TakeCell(w, c).at = w.at
        BY <4>1
      <4>3. i - 1 \in 0..(i - 1) /\ (i - 1) + 1 = i
        BY <1>1
      <4>4. c.kind \notin Plain /\ w.at.have = 0
        BY <2>2, <3>2 DEF Plain
      <4>5. Halted(w.at, st, cells, i - 1)
        BY <2>1, <4>3, <4>4 DEF Halted, c
      <4>6. \E m \in 0..(i - 1) : Halted(w.at, st, cells, m)
        BY <4>3, <4>5
      <4>7. QED
        BY <4>2, <4>6 DEF Reached, c
    <3>3. QED
      BY <3>1, <3>2
  <2>3. CASE c.kind = "num"
    <3>1. ASSUME NEW h \in 0..(PerPoint - 1), NEW n \in 0..MaxPoints,
                 h = Len(Append(w.at.taken, c.id)) % PerPoint
          PROVE  Reached([at |-> Gathered(w.at, h, n, c.id), on |-> TRUE], st, cells, i)
      <4> DEFINE g == Gathered(w.at, h, n, c.id)
      <4>1. /\ g.have = h /\ g.taken = Append(w.at.taken, c.id)
            /\ g.inComment = w.at.inComment /\ g.inOption = w.at.inOption
            /\ g.continuing = w.at.continuing /\ g.result = w.at.result
        <5>1. w.at \in Loaders /\ c.id \in Int
          BY <1>1
        <5>2. HasGathered(Gathered(w.at, h, n, c.id), w.at, h, c.id)
          <6> HIDE DEF g
          <6>1. QED
            BY <5>1, GatheredFields
        <5>3. QED
          BY <5>2 DEF HasGathered
      <4> DEFINE x == [at |-> g, on |-> TRUE]
      <4>2. x.on /\ x.at = g
        OBVIOUS
      <4> HIDE DEF g, x
      <4>3. w.at.taken = st.taken \o Ids(SubSeq(cells, 1, i - 1))
        BY <2>1 DEF Took
      <4>4. Append(st.taken \o Ids(SubSeq(cells, 1, i - 1)), c.id) =
              st.taken \o Ids(SubSeq(cells, 1, i))
        BY <1>2, OneMore DEF c
      <4>5. g.taken = st.taken \o Ids(SubSeq(cells, 1, i))
        BY <4>1, <4>3, <4>4
      <4>6. \A j \in 1..i : cells[j].kind = "num"
        <5>1. \A j \in 1..i : j \in 1..(i - 1) \/ j = i
          BY <1>1
        <5>2. \A j \in 1..(i - 1) : cells[j].kind = "num"
          BY <2>1 DEF Took
        <5>3. QED
          BY <2>3, <5>1, <5>2 DEF c
      <4>7. g.have = Len(g.taken) % PerPoint
        BY <3>1, <4>1
      <4>8. /\ g.inComment = st.inComment /\ g.inOption = st.inOption
            /\ g.continuing = st.continuing /\ g.result = st.result
        BY <2>1, <4>1 DEF Took
      <4>9. Took(g, st, cells, i)
        BY <4>5, <4>6, <4>7, <4>8 DEF Took
      <4>10. QED
        <5>1. Reached(x, st, cells, i)
          BY <4>2, <4>9 DEF Reached
        <5>2. QED
          BY <5>1 DEF x, g
    <3>2. /\ w.at.have = Len(w.at.taken) % PerPoint
          /\ Len(w.at.taken) \in Nat /\ Len(Append(w.at.taken, c.id)) = Len(w.at.taken) + 1
      <4>1. w.at.have = Len(w.at.taken) % PerPoint
        BY <2>1 DEF Took
      <4> DEFINE q == w.at.taken
                 d == c.id
      <4>2. q \in Seq(Int) /\ d \in Int
        BY <1>1, <1>2
      <4> HIDE DEF q, d
      <4>3. Len(q) \in Nat /\ Len(Append(q, d)) = Len(q) + 1
        BY <4>2, LenProperties, AppendProperties
      <4>4. QED
        BY <4>1, <4>3 DEF q, d
    <3>3. Len(Append(w.at.taken, c.id)) % PerPoint =
            IF w.at.have + 1 = PerPoint THEN 0 ELSE w.at.have + 1
      <4>1. PerPoint \in Nat /\ PerPoint > 0
        BY LoaderFacts
      <4>2. (Len(w.at.taken) + 1) % PerPoint =
              IF (Len(w.at.taken) % PerPoint) + 1 = PerPoint THEN 0
              ELSE (Len(w.at.taken) % PerPoint) + 1
        BY <3>2, <4>1, ModNext
      <4>3. QED
        BY <3>2, <4>2, Zenon
    <3>4. CASE w.at.have + 1 < PerPoint
      <4>1. TakeCell(w, c) = [at |-> Gathered(w.at, w.at.have + 1, w.at.npt, c.id), on |-> TRUE]
        BY <1>4, <2>3, <3>4 DEF TakeCell
      <4>2. w.at.have + 1 \in 0..(PerPoint - 1) /\ w.at.have + 1 # PerPoint
        BY <1>2, <3>4, LoaderFacts
      <4>3. w.at.have + 1 = Len(Append(w.at.taken, c.id)) % PerPoint
        BY <3>3, <4>2, Zenon
      <4>4. w.at.npt \in 0..MaxPoints
        BY <1>2
      <4>5. QED
        BY <3>1, <4>1, <4>2, <4>3, <4>4 DEF c
    <3>5. CASE ~(w.at.have + 1 < PerPoint) /\ w.at.npt >= MaxPoints
      <4>1. TakeCell(w, c) = [at |-> GivenUp(w.at), on |-> FALSE]
        BY <1>4, <2>3, <3>5 DEF TakeCell
      <4>2. ~TakeCell(w, c).on /\ TakeCell(w, c).at.result = "failed"
        BY <1>1, <4>1, FailedFields
      <4>3. QED
        BY <4>2 DEF Reached, c
    <3>6. CASE ~(w.at.have + 1 < PerPoint) /\ ~(w.at.npt >= MaxPoints)
      <4>1. TakeCell(w, c) = [at |-> Gathered(w.at, 0, w.at.npt + 1, c.id), on |-> TRUE]
        BY <1>4, <2>3, <3>6 DEF TakeCell
      <4>2. w.at.npt + 1 \in 0..MaxPoints
        BY <1>2, <3>6, LoaderFacts, SMTT(60)
      <4>3. 0 \in 0..(PerPoint - 1) /\ w.at.have + 1 = PerPoint
        <5>1. w.at.have \in 0..(PerPoint - 1) /\ PerPoint \in Nat \ {0}
          BY <1>2, LoaderFacts
        <5>2. QED
          BY <3>6, <5>1
      <4>4. 0 = Len(Append(w.at.taken, c.id)) % PerPoint
        BY <3>3, <4>3, Zenon
      <4>5. QED
        BY <3>1, <4>1, <4>2, <4>3, <4>4 DEF c
    <3>7. QED
      BY <3>4, <3>5, <3>6
  <2>4. QED
    BY <2>2, <2>3 DEF c
<1>5. QED
  BY <1>1, <1>3, <1>4 DEF c

\* What the data loop does of some cells.
LEMMA TakeRuns ==
  ASSUME NEW st \in Loaders, NEW cells \in Seq(Cells),
         st.have = Len(st.taken) % PerPoint
  PROVE  /\ Take(st, cells) \in Loaders
         /\ \/ Take(st, cells).result = "failed"
            \/ \E m \in 0..Len(cells) : Halted(Take(st, cells), st, cells, m)
<1> DEFINE L == Len(cells)
<1>1. PICK f \in [0..L -> Readers] :
            /\ f[0] = [at |-> st, on |-> TRUE]
            /\ \A i \in 1..L : f[i] = TakeCell(f[i - 1], cells[i])
            /\ Take(st, cells) = f[L].at
  BY TakeSteps
<1>2. L \in Nat
  BY LenProperties
<1> HIDE DEF L
<1> DEFINE S == {i \in 0..L : Reached(f[i], st, cells, i)}
<1>3. 0 \in S
  <2>1. f[0].on /\ f[0].at = st
    BY <1>1
  <2>2. Ids(SubSeq(cells, 1, 0)) = <<>> /\ st.taken \o <<>> = st.taken
    <3>1. 0 \in 0..Len(cells)
      BY LenProperties
    <3>2. SubSeq(cells, 1, 0) \in Seq(Cells) /\ Len(SubSeq(cells, 1, 0)) = 0
      BY <3>1, StartOf
    <3>3. SubSeq(cells, 1, 0) = <<>>
      BY <3>2, EmptySeq
    <3>4. st.taken \in Seq(Int)
      BY DEF Loaders
    <3>5. QED
      BY <3>3, <3>4, IdsJoin, ConcatEmptySeq
  <2>3. 1..0 = {} /\ 0 \in 0..L
    BY <1>2
  <2>4. Took(st, st, cells, 0)
    BY <2>2, <2>3 DEF Took
  <2>5. QED
    BY <2>1, <2>3, <2>4 DEF Reached
<1>4. ASSUME NEW k \in 0..(L - 1), k \in S
      PROVE  k + 1 \in S
  <2>1. k + 1 \in 1..L /\ k + 1 \in 0..L /\ (k + 1) - 1 = k /\ k \in 0..L
    BY <1>2
  <2>2. f[k] \in Readers
    BY <2>1
  <2>3. Reached(TakeCell(f[k], cells[k + 1]), st, cells, k + 1)
    <3>1. k + 1 \in 1..Len(cells)
      BY <2>1 DEF L
    <3>2. Reached(f[k], st, cells, (k + 1) - 1)
      BY <1>4, <2>1
    <3>3. QED
      BY <2>2, <3>1, <3>2, CellReaches
  <2>4. f[k + 1] = TakeCell(f[k], cells[k + 1])
    BY <1>1, <2>1
  <2>5. QED
    BY <2>1, <2>3, <2>4
<1>5. L \in S
  <2> HIDE DEF S
  <2>1. \A k \in 0..L : k \in S
    BY <1>2, <1>3, <1>4, Climb
  <2>2. QED
    BY <1>2, <2>1
<1>6. L \in 0..L /\ f[L] \in Readers
  BY <1>2
<1>7. f[L].at \in Loaders
  BY <1>6 DEF Readers
<1>8. \/ f[L].at.result = "failed"
      \/ \E m \in 0..L : Halted(f[L].at, st, cells, m)
  <2>1. Reached(f[L], st, cells, L)
    BY <1>5
  <2>2. CASE Took(f[L].at, st, cells, L)
    <3>1. Halted(f[L].at, st, cells, L)
      BY <1>2, <2>2 DEF Halted, L
    <3>2. QED
      BY <1>6, <3>1
  <2>3. CASE \E m \in 0..(L - 1) : Halted(f[L].at, st, cells, m)
    <3>1. \A m \in 0..(L - 1) : m \in 0..L
      BY <1>2
    <3>2. QED
      BY <2>3, <3>1
  <2>4. QED
    BY <2>1, <2>2, <2>3 DEF Reached
<1>9. QED
  BY <1>1, <1>7, <1>8 DEF L
-----------------------------------------------------------------------------
(* One pass of the fgets loop.                                             *)

\* What a flag's assignment leaves alone.
Numbers(x, s) == /\ x.have = s.have /\ x.npt = s.npt /\ x.taken = s.taken
                 /\ x.result = s.result

FlagSet(x, s, inComment, inOption, continuing) ==
    /\ x \in Loaders /\ Numbers(x, s)
    /\ x.inComment = inComment /\ x.inOption = inOption /\ x.continuing = continuing

LEMMA FlagsSet ==
  ASSUME NEW s \in Loaders, NEW b \in BOOLEAN
  PROVE  /\ FlagSet([s EXCEPT !.continuing = b], s, s.inComment, s.inOption, b)
         /\ FlagSet([s EXCEPT !.inComment = b], s, b, s.inOption, s.continuing)
         /\ FlagSet([s EXCEPT !.inOption = b], s, s.inComment, b, s.continuing)
<1>1. /\ [s EXCEPT !.continuing = b] =
           [inComment |-> s.inComment, inOption |-> s.inOption, continuing |-> b,
            have |-> s.have, npt |-> s.npt, taken |-> s.taken, result |-> s.result]
      /\ [s EXCEPT !.inComment = b] =
           [inComment |-> b, inOption |-> s.inOption, continuing |-> s.continuing,
            have |-> s.have, npt |-> s.npt, taken |-> s.taken, result |-> s.result]
      /\ [s EXCEPT !.inOption = b] =
           [inComment |-> s.inComment, inOption |-> b, continuing |-> s.continuing,
            have |-> s.have, npt |-> s.npt, taken |-> s.taken, result |-> s.result]
  BY DEF Loaders
<1>2. /\ [s EXCEPT !.continuing = b] \in Loaders
      /\ [s EXCEPT !.inComment = b] \in Loaders
      /\ [s EXCEPT !.inOption = b] \in Loaders
  BY DEF Loaders
<1>3. FlagSet([s EXCEPT !.continuing = b], s, s.inComment, s.inOption, b)
  BY <1>1, <1>2 DEF Numbers, FlagSet
<1>4. FlagSet([s EXCEPT !.inComment = b], s, b, s.inOption, s.continuing)
  BY <1>1, <1>2 DEF Numbers, FlagSet
<1>5. FlagSet([s EXCEPT !.inOption = b], s, s.inComment, b, s.continuing)
  BY <1>1, <1>2 DEF Numbers, FlagSet
<1>6. QED
  BY <1>3, <1>4, <1>5, Zenon

\* The loader before it looks for data in a chunk.
Ready(u, st, chunk, ended) ==
    /\ u \in Loaders /\ Numbers(u, st)
    /\ u.continuing = ~ended /\ u.inOption = st.inOption
    /\ st.continuing /\ st.inComment => u.inComment = ~ended
    /\ ~(st.continuing /\ st.inComment) =>
          u.inComment = IF "bang" \in Kinds(chunk) \/ ended
                        THEN "bang" \in Kinds(chunk) /\ ~ended ELSE st.inComment

LEMMA ChunkIs ==
  ASSUME NEW st \in Loaders, NEW chunk \in Seq(Cells), NEW ended \in BOOLEAN
  PROVE  \E u \in Loaders :
            /\ Ready(u, st, chunk, ended)
            /\ Chunk(st, chunk, ended) =
                  IF st.continuing /\ st.inComment THEN u
                  ELSE Classified(u, Before(chunk, Ends), st.continuing, ended)
<1> DEFINE was == [st EXCEPT !.continuing = ~ended]
           banged == "bang" \in Kinds(chunk)
           b == IF banged \/ ended THEN banged /\ ~ended ELSE was.inComment
<1>1. (~ended) \in BOOLEAN /\ banged \in BOOLEAN /\ st.inComment \in BOOLEAN
  <2>1. st.inComment \in BOOLEAN
    BY DEF Loaders
  <2>2. (~ended) \in BOOLEAN
    OBVIOUS
  <2>3. banged \in BOOLEAN
    OBVIOUS
  <2>4. QED
    BY <2>1, <2>2, <2>3, Zenon
<1>2. /\ was \in Loaders /\ Numbers(was, st) /\ was.continuing = ~ended
      /\ was.inComment = st.inComment /\ was.inOption = st.inOption
  <2>1. FlagSet(was, st, st.inComment, st.inOption, ~ended)
    BY <1>1, FlagsSet, Zenon
  <2>2. QED
    BY <2>1, Zenon DEF FlagSet
<1>3. b \in BOOLEAN
  <2> HIDE DEF banged, was
  <2>1. QED
    BY <1>1, <1>2
<1> HIDE DEF was
<1>4. CASE st.continuing /\ st.inComment
  <2> DEFINE u == [was EXCEPT !.inComment = ~ended]
  <2>1. /\ u \in Loaders /\ Numbers(u, was) /\ u.inComment = ~ended
        /\ u.continuing = was.continuing /\ u.inOption = was.inOption
    <3>1. FlagSet(u, was, ~ended, was.inOption, was.continuing)
      BY <1>1, <1>2, FlagsSet, Zenon
    <3>2. QED
      BY <3>1, Zenon DEF FlagSet
  <2>2. Chunk(st, chunk, ended) = u
    BY <1>4 DEF Chunk, StillComment, was
  <2> HIDE DEF u
  <2>3. Numbers(u, st) /\ u.continuing = ~ended /\ u.inOption = st.inOption
    BY <1>2, <2>1 DEF Numbers
  <2>4. Ready(u, st, chunk, ended)
    BY <1>4, <2>1, <2>3, Zenon DEF Ready
  <2>5. QED
    BY <1>4, <2>1, <2>2, <2>4, Zenon
<1>5. CASE ~(st.continuing /\ st.inComment)
  <2> DEFINE u == [was EXCEPT !.inComment = b]
  <2>1. Chunk(st, chunk, ended) = Classified(u, Before(chunk, Ends), st.continuing, ended)
    BY <1>5 DEF Chunk, StillComment, Ends, was
  <2> HIDE DEF b
  <2>2. /\ u \in Loaders /\ Numbers(u, was) /\ u.inComment = b
        /\ u.continuing = was.continuing /\ u.inOption = was.inOption
    <3>1. was \in Loaders /\ b \in BOOLEAN
      BY <1>2, <1>3, Zenon
    <3>2. FlagSet(u, was, b, was.inOption, was.continuing)
      BY <3>1, FlagsSet, Zenon
    <3>3. QED
      BY <3>2, Zenon DEF FlagSet
  <2> HIDE DEF u
  <2>3. Numbers(u, st) /\ u.continuing = ~ended /\ u.inOption = st.inOption
    BY <1>2, <2>2 DEF Numbers
  <2>4. b = IF banged \/ ended THEN banged /\ ~ended ELSE st.inComment
    BY <1>2, Zenon DEF b
  <2>5. Ready(u, st, chunk, ended)
    BY <1>5, <2>2, <2>3, <2>4, Zenon DEF Ready
  <2>6. QED
    BY <1>5, <2>1, <2>2, <2>5, Zenon
<1>6. QED
  BY <1>4, <1>5

\* What looking for data keeps, unless it fails.
Kept(t, st) ==
    \/ t.result = "failed"
    \/ /\ t.have = Len(t.taken) % PerPoint /\ t.result = st.result
       /\ t.continuing = st.continuing /\ t.inComment = st.inComment

LEMMA ClassifiedKeeps ==
  ASSUME NEW st \in Loaders, NEW b \in Seq(Cells), NEW isTail \in BOOLEAN,
         NEW ended \in BOOLEAN, st.have = Len(st.taken) % PerPoint
  PROVE  /\ Classified(st, b, isTail, ended) \in Loaders
         /\ Kept(Classified(st, b, isTail, ended), st)
<1> DEFINE t == Classified(st, b, isTail, ended)
           Quiet(x) == /\ x \in Loaders /\ Numbers(x, st)
                       /\ x.continuing = st.continuing /\ x.inComment = st.inComment
<1>1. ASSUME NEW x, Quiet(x)
      PROVE  x \in Loaders /\ Kept(x, st) /\ x.have = Len(x.taken) % PerPoint
  BY <1>1 DEF Kept, Numbers
<1>2. Quiet(st)
  BY DEF Numbers
<1>3. ASSUME NEW x, Quiet(x), NEW o \in BOOLEAN
      PROVE  Quiet([x EXCEPT !.inOption = o])
  <2> DEFINE y == [x EXCEPT !.inOption = o]
  <2>1. /\ y \in Loaders /\ Numbers(y, x) /\ y.continuing = x.continuing
        /\ y.inComment = x.inComment
    <3>1. x \in Loaders /\ o \in BOOLEAN
      BY <1>3, Zenon
    <3>2. FlagSet(y, x, x.inComment, o, x.continuing)
      BY <3>1, FlagsSet, Zenon
    <3>3. QED
      BY <3>2, Zenon DEF FlagSet
  <2> HIDE DEF y
  <2>2. Numbers(y, st)
    BY <1>3, <2>1 DEF Numbers
  <2>3. QED
    BY <1>3, <2>1, <2>2 DEF y
<1>4. ASSUME NEW x, Quiet(x)
      PROVE  Take(x, b) \in Loaders /\ Kept(Take(x, b), st)
  <2>1. x \in Loaders /\ x.have = Len(x.taken) % PerPoint
    BY <1>1, <1>4
  <2>2. /\ Take(x, b) \in Loaders
        /\ \/ Take(x, b).result = "failed"
           \/ \E m \in 0..Len(b) : Halted(Take(x, b), x, b, m)
    BY <2>1, TakeRuns
  <2>3. ASSUME NEW m \in 0..Len(b), Halted(Take(x, b), x, b, m)
        PROVE  Kept(Take(x, b), st)
    <3> DEFINE y == Take(x, b)
    <3> HIDE DEF y
    <3>1. /\ y.have = Len(y.taken) % PerPoint /\ y.result = x.result
          /\ y.continuing = x.continuing /\ y.inComment = x.inComment
      BY <2>3 DEF y, Halted, Took
    <3>2. QED
      BY <1>4, <3>1 DEF y, Kept, Numbers
  <2>4. QED
    BY <2>2, <2>3 DEF Kept
<1> HIDE DEF Quiet
<1>5. Quiet([st EXCEPT !.inOption = FALSE]) /\ Quiet([st EXCEPT !.inOption = ~ended])
      /\ Quiet([[st EXCEPT !.inOption = FALSE] EXCEPT !.inOption = ~ended])
  BY <1>2, <1>3
<1>6. CASE b = <<>> \/ (isTail /\ st.inOption)
  <2>1. t = st \/ t = [st EXCEPT !.inOption = ~ended]
    BY <1>6 DEF Classified
  <2>2. QED
    BY <1>1, <1>2, <1>5, <2>1, Zenon
<1>7. CASE ~(b = <<>> \/ (isTail /\ st.inOption))
  <2> DEFINE s == IF isTail THEN st ELSE [st EXCEPT !.inOption = FALSE]
  <2>1. t = IF b[1].kind = "hash" /\ ~isTail THEN [s EXCEPT !.inOption = ~ended]
            ELSE IF b[1].kind = "bracket" THEN s ELSE Take(s, b)
    BY <1>7, Zenon DEF Classified
  <2>2. Quiet(s) /\ Quiet([s EXCEPT !.inOption = ~ended])
    <3>1. Quiet(s)
      BY <1>2, <1>5, Zenon
    <3> HIDE DEF s
    <3>2. QED
      BY <1>3, <3>1
  <2> HIDE DEF s, t
  <2>3. t = [s EXCEPT !.inOption = ~ended] \/ t = s \/ t = Take(s, b)
    BY <2>1, Zenon
  <2>4. QED
    BY <1>1, <1>4, <2>2, <2>3, Zenon DEF t
<1>8. QED
  BY <1>6, <1>7

\* A part of a line that is data: the loader takes all of it or fails.
LEMMA DataTaken ==
  ASSUME NEW st \in Loaders, NEW b \in Seq(Cells), NEW isTail \in BOOLEAN,
         NEW ended \in BOOLEAN, st.have = Len(st.taken) % PerPoint,
         Kinds(b) \subseteq Plain, ~(isTail /\ st.inOption)
  PROVE  LET t == Classified(st, b, isTail, ended)
         IN  t.result # "failed" =>
                /\ t.taken = st.taken \o Ids(b)
                /\ b # <<>> => ~t.inOption
<1> DEFINE t == Classified(st, b, isTail, ended)
           s == IF isTail THEN st ELSE [st EXCEPT !.inOption = FALSE]
<1>1. /\ Len(b) \in Nat /\ DOMAIN b = 1..Len(b) /\ st.taken \in Seq(Int)
      /\ st.inOption \in BOOLEAN
  BY LenProperties DEF Loaders
<1>2. CASE b = <<>>
  <2>1. t = st
    BY <1>2 DEF Classified
  <2>2. st.taken \o Ids(b) = st.taken
    BY <1>1, <1>2, IdsJoin, ConcatEmptySeq
  <2>3. QED
    BY <1>2, <2>1, <2>2
<1>3. CASE b # <<>>
  <2>1. 1 \in 1..Len(b)
    BY <1>1, <1>3, EmptySeq
  <2>2. \A i \in 1..Len(b) : b[i].kind \in Plain
    BY <1>1 DEF Kinds
  <2>3. b[1].kind \notin {"hash", "bracket"}
    BY <2>1, <2>2 DEF Plain
  <2>4. t = Take(s, b)
    BY <1>3, <2>3, Zenon DEF Classified
  <2>5. s \in Loaders /\ Numbers(s, st) /\ s.inOption = FALSE
    <3>1. CASE isTail
      BY <1>1, <3>1 DEF Numbers
    <3>2. CASE ~isTail
      <4>1. FlagSet([st EXCEPT !.inOption = FALSE], st, st.inComment, FALSE, st.continuing)
        BY FlagsSet
      <4>2. s = [st EXCEPT !.inOption = FALSE]
        BY <3>2
      <4>3. QED
        BY <4>1, <4>2, Zenon DEF FlagSet
    <3>3. QED
      BY <3>1, <3>2
  <2> HIDE DEF s, t
  <2>6. s.have = Len(s.taken) % PerPoint /\ s.taken = st.taken
    BY <2>5 DEF Numbers
  <2>7. ASSUME t.result # "failed"
        PROVE  t.taken = st.taken \o Ids(b) /\ ~t.inOption
    <3>1. PICK m \in 0..Len(b) : Halted(t, s, b, m)
      BY <2>4, <2>5, <2>6, <2>7, TakeRuns
    <3>2. m = Len(b)
      <4>1. CASE m < Len(b)
        <5>1. m + 1 \in 1..Len(b)
          BY <1>1, <4>1
        <5>2. QED
          BY <2>2, <3>1, <4>1, <5>1 DEF Halted
      <4>2. Len(b) \in Nat /\ m \in 0..Len(b)
        BY <1>1
      <4>3. QED
        BY <4>1, <4>2
    <3>3. SubSeq(b, 1, m) = b
      <4>1. /\ SubSeq(b, 1, m) \in Seq(Cells) /\ Len(SubSeq(b, 1, m)) = m
            /\ \A i \in 1..m : SubSeq(b, 1, m)[i] = b[i]
        BY StartOf
      <4>2. QED
        BY <3>2, <4>1, SeqEqual
    <3>4. t.taken = s.taken \o Ids(SubSeq(b, 1, m)) /\ t.inOption = s.inOption
      BY <3>1 DEF Halted, Took
    <3>5. QED
      BY <2>5, <2>6, <3>3, <3>4
  <2>8. QED
    BY <2>7 DEF t
<1>4. QED
  BY <1>2, <1>3

\* A newline ends every line but the last of the file, and is nowhere else.
LineOf(p, last) == \A i \in 1..Len(p) : p[i].kind = "nl" <=> (i = Len(p) /\ ~last)

\* What fgets hands over of a line, what it leaves, and whether that ends it.
Portion(p)       == IF Len(p) < Buf THEN Len(p) ELSE Buf
Bite(p)          == SubSeq(p, 1, Portion(p))
Left(p)          == SubSeq(p, Portion(p) + 1, Len(p))
EndedBy(p, last) == "nl" \in Kinds(Bite(p)) \/ (last /\ Len(p) < Buf)

LEMMA Bitten ==
  ASSUME NEW p \in Seq(Cells), p # <<>>, NEW last \in BOOLEAN, LineOf(p, last)
  PROVE  /\ Portion(p) \in 1..Len(p)
         /\ Bite(p) \in Seq(Cells) /\ Len(Bite(p)) = Portion(p)
         /\ \A i \in 1..Portion(p) : Bite(p)[i] = p[i]
         /\ Left(p) \in Seq(Cells) /\ LineOf(Left(p), last)
         /\ EndedBy(p, last) => Left(p) = <<>>
         /\ Left(p) = <<>> /\ ~last => EndedBy(p, last)
         /\ "nl" \in Kinds(Bite(p)) => EndedBy(p, last)
         /\ \A k : k \in Kinds(Bite(p)) <=> \E i \in 1..Portion(p) : p[i].kind = k
<1> DEFINE L == Len(p)
           n == Portion(p)
           a == Bite(p)
           r == Left(p)
<1>1. L \in Nat /\ L > 0 /\ Buf \in Nat /\ Buf > 0
  BY EmptySeq, LenProperties, LoaderFacts
<1>2. n \in 1..L /\ n \in 0..L /\ n \in Nat /\ (n < L => ~(L < Buf))
  BY <1>1 DEF Portion
<1>3. a \in Seq(Cells) /\ Len(a) = n /\ \A i \in 1..n : a[i] = p[i]
  <2> HIDE DEF n
  <2>1. a = SubSeq(p, 1, n)
    BY DEF Bite, n
  <2> HIDE DEF a
  <2>2. QED
    BY <1>2, <2>1, StartOf
<1>4. r \in Seq(Cells) /\ Len(r) = L - n /\ \A i \in 1..(L - n) : r[i] = p[n + i]
  <2> HIDE DEF n
  <2>1. r = SubSeq(p, n + 1, L)
    BY DEF Left, n
  <2> HIDE DEF r
  <2>2. /\ SubSeq(p, n + 1, L) \in Seq(Cells)
        /\ Len(SubSeq(p, n + 1, L)) = IF n <= L THEN L - n ELSE 0
        /\ \A i \in 1..(L - n) : SubSeq(p, n + 1, L)[i] = p[n + i]
    <3>1. L \in 0..Len(p) /\ n \in Nat
      BY <1>1, <1>2
    <3>2. QED
      BY <3>1, PartOf
  <2>3. QED
    BY <1>2, <2>1, <2>2
<1> HIDE DEF n, a, r
<1>5. \A k : k \in Kinds(a) <=> \E i \in 1..n : p[i].kind = k
  <2>1. DOMAIN a = 1..n
    BY <1>3, LenProperties
  <2>2. QED
    BY <1>3, <2>1 DEF Kinds
<1>6. "nl" \in Kinds(a) <=> n = L /\ ~last
  <2>1. ASSUME NEW i \in 1..n, p[i].kind = "nl"
        PROVE  n = L /\ ~last
    <3>1. i \in 1..L
      BY <1>2
    <3>2. i = L /\ ~last
      BY <2>1, <3>1 DEF LineOf
    <3>3. QED
      BY <1>2, <3>2
  <2>2. ASSUME n = L, ~last
        PROVE  \E i \in 1..n : p[i].kind = "nl"
    <3>1. L \in 1..L
      BY <1>1
    <3>2. QED
      BY <2>2, <3>1 DEF LineOf
  <2>3. QED
    BY <1>5, <2>1, <2>2
<1>7. LineOf(r, last)
  <2>1. ASSUME NEW i \in 1..(L - n)
        PROVE  r[i].kind = "nl" <=> (i = L - n /\ ~last)
    <3>1. n + i \in 1..L /\ (n + i = L <=> i = L - n)
      BY <1>1, <1>2
    <3>2. p[n + i].kind = "nl" <=> (n + i = L /\ ~last)
      BY <3>1 DEF LineOf
    <3>3. r[i] = p[n + i]
      BY <1>4
    <3>4. QED
      BY <3>1, <3>2, <3>3, Zenon
  <2>2. QED
    BY <1>4, <2>1 DEF LineOf
<1>8. r = <<>> <=> n = L
  <2>1. r = <<>> <=> Len(r) = 0
    BY <1>4, EmptySeq
  <2>2. QED
    BY <1>1, <1>2, <1>4, <2>1
<1> DEFINE e == EndedBy(p, last)
<1>9. e <=> ("nl" \in Kinds(a) \/ (last /\ L < Buf))
  BY DEF EndedBy, a
<1>10. /\ e => r = <<>>
       /\ r = <<>> /\ ~last => e
       /\ "nl" \in Kinds(a) => e
  <2> HIDE DEF e, L
  <2>1. L < Buf => n = L
    BY <1>1, <1>2
  <2>2. QED
    BY <1>6, <1>8, <1>9, <2>1, Zenon
<1>11. QED
  BY <1>2, <1>3, <1>4, <1>5, <1>7, <1>10 DEF n, a, r

\* Where the loader is in a line.
Placed(s, cells, last) ==
    /\ s.inComment => s.continuing
    /\ cells # <<>> => s.continuing
    /\ cells = <<>> /\ ~last => ~s.continuing
    /\ LineOf(cells, last)
    /\ s.have = Len(s.taken) % PerPoint

LEMMA ChunkPlaced ==
  ASSUME NEW st \in Loaders, NEW p \in Seq(Cells), p # <<>>, NEW last \in BOOLEAN,
         LineOf(p, last), st.have = Len(st.taken) % PerPoint
  PROVE  LET t == Chunk(st, Bite(p), EndedBy(p, last))
         IN  /\ t \in Loaders
             /\ t.result # "failed" => t.result = st.result /\ Placed(t, Left(p), last)
<1> DEFINE a == Bite(p)
           r == Left(p)
           e == EndedBy(p, last)
           t == Chunk(st, a, e)
<1>1. /\ a \in Seq(Cells) /\ LineOf(r, last)
      /\ e => r = <<>>
      /\ r = <<>> /\ ~last => e
  BY Bitten
<1>2. e \in BOOLEAN /\ st.continuing \in BOOLEAN
  <2>1. st.continuing \in BOOLEAN
    BY DEF Loaders
  <2>2. e \in BOOLEAN
    BY DEF EndedBy
  <2>3. QED
    BY <2>1, <2>2, Zenon
<1> HIDE DEF a, r, e
<1>3. PICK u \in Loaders :
         /\ Ready(u, st, a, e)
         /\ t = IF st.continuing /\ st.inComment THEN u
                ELSE Classified(u, Before(a, Ends), st.continuing, e)
  BY <1>1, <1>2, ChunkIs, Zenon
<1> HIDE DEF t
<1>4. /\ u.have = Len(u.taken) % PerPoint /\ u.result = st.result
      /\ u.continuing = ~e /\ (u.inComment => ~e)
  <2>1. u.have = Len(u.taken) % PerPoint /\ u.result = st.result
    BY <1>3 DEF Ready, Numbers
  <2>2. u.continuing = ~e /\ (u.inComment => ~e)
    BY <1>3, Zenon DEF Ready
  <2>3. QED
    BY <2>1, <2>2, Zenon
<1>5. t \in Loaders /\ Kept(t, u)
  <2>1. CASE st.continuing /\ st.inComment
    <3>1. t = u
      BY <1>3, <2>1, Zenon
    <3>2. QED
      BY <1>4, <3>1, Zenon DEF Kept
  <2>2. CASE ~(st.continuing /\ st.inComment)
    <3>1. t = Classified(u, Before(a, Ends), st.continuing, e)
      BY <1>3, <2>2, Zenon
    <3>2. Before(a, Ends) \in Seq(Cells)
      BY <1>1, BeforeTyped
    <3>3. QED
      BY <1>2, <1>4, <3>1, <3>2, ClassifiedKeeps
  <2>3. QED
    BY <2>1, <2>2
<1>6. ASSUME t.result # "failed"
      PROVE  t.result = st.result /\ Placed(t, r, last)
  <2>1. /\ t.have = Len(t.taken) % PerPoint /\ t.result = st.result
        /\ t.continuing = u.continuing /\ t.inComment = u.inComment
    BY <1>4, <1>5, <1>6, Zenon DEF Kept
  <2>2. QED
    BY <1>1, <1>4, <2>1, Zenon DEF Placed
<1>7. QED
  BY <1>5, <1>6, Zenon DEF t, r, a, e

\* The data a line still owes after a chunk.
OwedBy(s, cells) == IF s.continuing /\ ~s.inComment /\ ~s.inOption
                    THEN Before(cells, Ends) ELSE <<>>

\* In a comment, or in the line of options, a chunk gives no data and leaves none.
LEMMA ChunkSkips ==
  ASSUME NEW st \in Loaders, NEW p \in Seq(Cells), p # <<>>, NEW last \in BOOLEAN,
         LineOf(p, last), st.continuing, st.inComment \/ st.inOption
  PROVE  LET t == Chunk(st, Bite(p), EndedBy(p, last))
         IN  t.taken = st.taken /\ OwedBy(t, Left(p)) = <<>>
<1> DEFINE a == Bite(p)
           e == EndedBy(p, last)
           t == Chunk(st, a, e)
<1>1. /\ a \in Seq(Cells) /\ Len(a) \in 1..Len(p)
      /\ "nl" \in Kinds(a) => e
  BY Bitten
<1>2. e \in BOOLEAN
  BY DEF EndedBy
<1> HIDE DEF a, e
<1>3. PICK u \in Loaders :
         /\ Ready(u, st, a, e)
         /\ t = IF st.continuing /\ st.inComment THEN u
                ELSE Classified(u, Before(a, Ends), st.continuing, e)
  BY <1>1, <1>2, ChunkIs, Zenon
<1> HIDE DEF t
<1>4. u.taken = st.taken /\ u.continuing = ~e /\ u.inOption = st.inOption
  BY <1>3, Zenon DEF Ready, Numbers
<1>5. ASSUME ~t.continuing \/ t.inComment \/ t.inOption
      PROVE  OwedBy(t, Left(p)) = <<>>
  BY <1>5, Zenon DEF OwedBy
<1>6. CASE st.inComment
  <2>1. t = u /\ u.inComment = ~e
    BY <1>3, <1>6, Zenon DEF Ready
  <2>2. QED
    BY <1>4, <1>5, <2>1, Zenon DEF a, e, t
<1>7. CASE ~st.inComment
  <2>1. st.inOption /\ t = Classified(u, Before(a, Ends), st.continuing, e)
    BY <1>3, <1>7, Zenon
  <2>2. CASE Before(a, Ends) = <<>>
    <3>1. t = u
      BY <2>1, <2>2 DEF Classified
    <3>2. "bang" \in Kinds(a) \/ "nl" \in Kinds(a)
      BY <1>1, <2>2, EndsAtOnce
    <3>3. u.inComment = IF "bang" \in Kinds(a) \/ e THEN "bang" \in Kinds(a) /\ ~e
                        ELSE st.inComment
      BY <1>3, <1>7, Zenon DEF Ready
    <3>4. QED
      BY <1>1, <1>4, <1>5, <3>1, <3>2, <3>3, Zenon DEF a, e, t
  <2>3. CASE Before(a, Ends) # <<>>
    <3>1. t = [u EXCEPT !.inOption = ~e]
      BY <1>4, <2>1, <2>3 DEF Classified
    <3>2. (~e) \in BOOLEAN
      BY <1>2
    <3>3. FlagSet(t, u, u.inComment, ~e, u.continuing)
      BY <3>1, <3>2, FlagsSet, Zenon
    <3>4. t.taken = u.taken /\ t.continuing = u.continuing /\ t.inOption = ~e
      BY <3>3, Zenon DEF FlagSet, Numbers
    <3>5. QED
      BY <1>4, <1>5, <3>4, Zenon DEF a, e, t
  <2>4. QED
    BY <2>2, <2>3
<1>8. QED
  BY <1>6, <1>7

\* Of a line whose cells up to a comment are data, a chunk takes what it holds,
\* and the rest is still owed.
LEMMA ChunkTakes ==
  ASSUME NEW st \in Loaders, NEW p \in Seq(Cells), p # <<>>, NEW last \in BOOLEAN,
         LineOf(p, last), st.have = Len(st.taken) % PerPoint, ~st.inComment,
         ~(st.continuing /\ st.inOption), Kinds(Before(p, Ends)) \subseteq Plain
  PROVE  LET t == Chunk(st, Bite(p), EndedBy(p, last))
         IN  t.result # "failed" =>
                /\ t.taken \o Ids(OwedBy(t, Left(p))) = st.taken \o Ids(Before(p, Ends))
                /\ Kinds(OwedBy(t, Left(p))) \subseteq Plain
<1> DEFINE n == Portion(p)
           a == Bite(p)
           r == Left(p)
           e == EndedBy(p, last)
           t == Chunk(st, a, e)
           b == Before(a, Ends)
           d == Before(p, Ends)
<1>1. /\ n \in 1..Len(p) /\ a \in Seq(Cells) /\ Len(a) = n /\ r \in Seq(Cells)
      /\ e => r = <<>>
      /\ "nl" \in Kinds(a) => e
      /\ \A k : k \in Kinds(a) <=> \E i \in 1..n : p[i].kind = k
  BY Bitten
<1>2. /\ (\E i \in 1..n : p[i].kind \in Ends) => d = b
      /\ (\A i \in 1..n : p[i].kind \notin Ends) => b = a /\ d = a \o Before(r, Ends)
  <2>1. n \in 0..Len(p)
    <3>1. Len(p) \in Nat
      BY LenProperties
    <3>2. QED
      BY <1>1, <3>1
  <2> HIDE DEF n
  <2>2. a = SubSeq(p, 1, n) /\ r = SubSeq(p, n + 1, Len(p))
    BY DEF Bite, Left, n
  <2>3. /\ (\E i \in 1..n : p[i].kind \in Ends) =>
               Before(p, Ends) = Before(SubSeq(p, 1, n), Ends)
        /\ (\A i \in 1..n : p[i].kind \notin Ends) =>
               /\ Before(SubSeq(p, 1, n), Ends) = SubSeq(p, 1, n)
               /\ Before(p, Ends) = SubSeq(p, 1, n) \o Before(SubSeq(p, n + 1, Len(p)), Ends)
    BY <2>1, CutOfParts
  <2>4. QED
    BY <2>2, <2>3, Zenon
<1>3. e \in BOOLEAN /\ st.continuing \in BOOLEAN
  <2>1. st.continuing \in BOOLEAN
    BY DEF Loaders
  <2>2. e \in BOOLEAN
    BY DEF EndedBy
  <2>3. QED
    BY <2>1, <2>2, Zenon
<1> HIDE DEF a, r, e
<1>4. PICK u \in Loaders :
         /\ Ready(u, st, a, e)
         /\ t = IF st.continuing /\ st.inComment THEN u
                ELSE Classified(u, Before(a, Ends), st.continuing, e)
  BY <1>1, <1>3, ChunkIs, Zenon
<1> HIDE DEF t
<1>5. /\ t = Classified(u, b, st.continuing, e)
      /\ u.continuing = ~e /\ u.inOption = st.inOption
      /\ u.inComment = IF "bang" \in Kinds(a) \/ e THEN "bang" \in Kinds(a) /\ ~e
                       ELSE st.inComment
  BY <1>4, Zenon DEF Ready
<1>6. u.taken = st.taken /\ u.have = Len(u.taken) % PerPoint
  BY <1>4 DEF Ready, Numbers
<1>7. b \in Seq(Cells) /\ st.taken \in Seq(Int)
  BY <1>1, BeforeTyped DEF Loaders
<1> HIDE DEF b, d
<1>8. CASE \E i \in 1..n : p[i].kind \in Ends
  <2>1. d = b /\ Kinds(b) \subseteq Plain
    BY <1>2, <1>8 DEF d
  <2>2. "bang" \in Kinds(a) \/ e
    BY <1>1, <1>8 DEF Ends
  <2>3. ASSUME t.result # "failed"
        PROVE  t.taken = st.taken \o Ids(d) /\ OwedBy(t, r) = <<>>
    <3>1. t.taken = u.taken \o Ids(b)
      BY <1>3, <1>5, <1>6, <1>7, <2>1, <2>3, DataTaken, ZenonT(60)
    <3>2. Kept(t, u)
      BY <1>3, <1>5, <1>6, <1>7, ClassifiedKeeps, Zenon
    <3>3. t.continuing = u.continuing /\ t.inComment = u.inComment
      BY <2>3, <3>2, Zenon DEF Kept
    <3>4. ~t.continuing \/ t.inComment
      BY <1>5, <2>2, <3>3, Zenon
    <3>5. QED
      BY <1>6, <2>1, <3>1, <3>4, Zenon DEF OwedBy
  <2>4. ASSUME t.result # "failed"
        PROVE  t.taken \o Ids(OwedBy(t, r)) = st.taken \o Ids(d)
    <3>1. t.taken \o Ids(OwedBy(t, r)) = (st.taken \o Ids(d)) \o <<>>
      BY <2>3, <2>4, IdsJoin, Zenon
    <3>2. Ids(d) \in Seq(Int)
      BY <1>7, <2>1, IdsOf
    <3>3. st.taken \o Ids(d) \in Seq(Int)
      BY <1>7, <3>2, ConcatProperties
    <3>4. QED
      BY <3>1, <3>3, ConcatEmptySeq
  <2>5. Kinds(<<>>) = {}
    BY DEF Kinds
  <2>6. QED
    BY <2>3, <2>4, <2>5 DEF t, a, r, e, d
<1>9. CASE \A i \in 1..n : p[i].kind \notin Ends
  <2>1. b = a /\ d = a \o Before(r, Ends)
    BY <1>2, <1>9
  <2>2. /\ Before(r, Ends) \in Seq(Cells)
        /\ Kinds(a) \subseteq Plain /\ Kinds(Before(r, Ends)) \subseteq Plain
    <3>1. Before(r, Ends) \in Seq(Cells)
      BY <1>1, BeforeTyped
    <3>2. Kinds(d) = Kinds(a) \cup Kinds(Before(r, Ends))
      BY <1>1, <2>1, <3>1, KindsJoin
    <3>3. QED
      BY <3>1, <3>2 DEF d
  <2>3. "bang" \notin Kinds(a) /\ a # <<>>
    <3>1. "bang" \notin Kinds(a)
      BY <1>1, <1>9 DEF Ends
    <3>2. Len(a) # 0
      BY <1>1, LenProperties
    <3>3. QED
      BY <3>1, <3>2, EmptySeq
  <2>4. u.inComment = IF e THEN FALSE ELSE st.inComment
    BY <1>5, <2>3, Zenon
  <2>5. ASSUME t.result # "failed"
        PROVE  t.taken = st.taken \o Ids(a) /\ OwedBy(t, r) = Before(r, Ends)
    <3>1. t.taken = u.taken \o Ids(b) /\ ~t.inOption
      <4>1. Kinds(b) \subseteq Plain /\ b # <<>>
        BY <2>1, <2>2, <2>3
      <4>2. QED
        BY <1>3, <1>5, <1>6, <1>7, <4>1, <2>5, DataTaken, ZenonT(60)
    <3>2. Kept(t, u)
      BY <1>3, <1>5, <1>6, <1>7, ClassifiedKeeps, Zenon
    <3>3. t.continuing = u.continuing /\ t.inComment = u.inComment
      BY <2>5, <3>2, Zenon DEF Kept
    <3>4. CASE e
      <4>1. r = <<>> /\ ~t.continuing
        BY <1>1, <1>5, <3>3, <3>4, Zenon
      <4>2. Before(<<>>, Ends) = <<>>
        BY BeforeNothing
      <4>3. OwedBy(t, r) = Before(r, Ends)
        BY <4>1, <4>2, Zenon DEF OwedBy
      <4>4. QED
        BY <1>6, <2>1, <3>1, <4>3, Zenon
    <3>5. CASE ~e
      <4>1. t.continuing /\ ~t.inComment /\ ~t.inOption
        BY <1>5, <2>4, <3>1, <3>3, <3>5, Zenon
      <4>2. OwedBy(t, r) = Before(r, Ends)
        BY <4>1, Zenon DEF OwedBy
      <4>3. QED
        BY <1>6, <2>1, <3>1, <4>2, Zenon
    <3>6. QED
      BY <3>4, <3>5
  <2>6. ASSUME t.result # "failed"
        PROVE  t.taken \o Ids(OwedBy(t, r)) = st.taken \o Ids(d)
    <3>1. t.taken \o Ids(OwedBy(t, r)) = (st.taken \o Ids(a)) \o Ids(Before(r, Ends))
      BY <2>5, <2>6, Zenon
    <3>2. Ids(d) = Ids(a) \o Ids(Before(r, Ends))
      BY <1>1, <2>1, <2>2, IdsJoin, Zenon
    <3>3. Ids(a) \in Seq(Int) /\ Ids(Before(r, Ends)) \in Seq(Int)
      BY <1>1, <2>2, IdsOf
    <3>4. (st.taken \o Ids(a)) \o Ids(Before(r, Ends)) =
            st.taken \o (Ids(a) \o Ids(Before(r, Ends)))
      <4> DEFINE x == st.taken
                 y == Ids(a)
                 z == Ids(Before(r, Ends))
      <4>1. x \in Seq(Int) /\ y \in Seq(Int) /\ z \in Seq(Int)
        BY <1>7, <3>3
      <4> HIDE DEF x, y, z
      <4>2. Joined(x, y, z)
        BY <4>1, JoinedThrice, Zenon
      <4>3. QED
        BY <4>2 DEF Joined, x, y, z
    <3>5. QED
      BY <3>1, <3>2, <3>4, Zenon
  <2>7. QED
    BY <2>2, <2>5, <2>6, Zenon DEF t, a, r, e, d
<1>10. QED
  BY <1>8, <1>9

\* The line of options, and a keyword's line read whole, are no data.
LEMMA HeaderSkipped ==
  ASSUME NEW st \in Loaders, NEW p \in Seq(Cells), p # <<>>, NEW last \in BOOLEAN,
         LineOf(p, last), ~st.continuing,
         p[1].kind = "hash" \/ (p[1].kind = "bracket" /\ EndedBy(p, last))
  PROVE  LET t == Chunk(st, Bite(p), EndedBy(p, last))
         IN  t.taken = st.taken /\ OwedBy(t, Left(p)) = <<>>
<1> DEFINE a == Bite(p)
           e == EndedBy(p, last)
           t == Chunk(st, a, e)
           b == Before(a, Ends)
<1>1. /\ a \in Seq(Cells) /\ Len(a) \in 1..Len(p) /\ Len(p) \in Nat /\ a[1] = p[1]
  <2>1. Len(p) \in Nat
    BY LenProperties
  <2>2. Portion(p) \in 1..Len(p) /\ a \in Seq(Cells) /\ Len(a) = Portion(p)
        /\ \A i \in 1..Portion(p) : a[i] = p[i]
    BY Bitten
  <2>3. 1 \in 1..Portion(p)
    BY <2>1, <2>2
  <2>4. QED
    BY <2>1, <2>2, <2>3
<1>2. e \in BOOLEAN
  BY DEF EndedBy
<1>3. p[1].kind = "hash" \/ (p[1].kind = "bracket" /\ e)
  OBVIOUS
<1> HIDE DEF a, e
<1>4. PICK u \in Loaders :
         /\ Ready(u, st, a, e)
         /\ t = IF st.continuing /\ st.inComment THEN u
                ELSE Classified(u, Before(a, Ends), st.continuing, e)
  BY <1>1, <1>2, ChunkIs, Zenon
<1> HIDE DEF t
<1>5. t = Classified(u, b, st.continuing, e) /\ u.taken = st.taken /\ u.continuing = ~e
  BY <1>4, Zenon DEF Ready, Numbers
<1>6. b # <<>> /\ b[1] = p[1]
  <2>1. PICK k \in 0..Len(a) : CutAt(a, Ends, k) /\ b = SubSeq(a, 1, k)
    BY <1>1, CutSomewhere
  <2>2. k # 0
    <3>1. CASE k = 0
      <4>1. a[1].kind \in Ends
        BY <1>1, <2>1, <3>1 DEF CutAt
      <4>2. QED
        BY <1>1, <1>3, <4>1 DEF Ends
    <3>2. QED
      BY <3>1
  <2>3. /\ SubSeq(a, 1, k) \in Seq(Cells) /\ Len(SubSeq(a, 1, k)) = k
        /\ \A i \in 1..k : SubSeq(a, 1, k)[i] = a[i]
    BY <1>1, StartOf
  <2>4. 1 \in 1..k
    BY <1>1, <2>2
  <2>5. b \in Seq(Cells) /\ Len(b) # 0 /\ b[1] = a[1]
    BY <2>1, <2>2, <2>3, <2>4
  <2>6. b # <<>>
    BY <2>5, EmptySeq
  <2>7. QED
    BY <1>1, <2>5, <2>6
<1> HIDE DEF b
<1> DEFINE s == [u EXCEPT !.inOption = FALSE]
<1>7. FlagSet(s, u, u.inComment, FALSE, u.continuing)
  <2>1. u \in Loaders /\ FALSE \in BOOLEAN
    BY <1>4
  <2>2. QED
    BY <2>1, FlagsSet, Zenon
<1>8. s \in Loaders /\ s.taken = st.taken /\ s.continuing = ~e
  <2> HIDE DEF s
  <2>1. QED
    BY <1>5, <1>7, Zenon DEF FlagSet, Numbers
<1>9. t = IF b[1].kind = "hash" THEN [s EXCEPT !.inOption = ~e]
          ELSE IF b[1].kind = "bracket" THEN s ELSE Take(s, b)
  BY <1>5, <1>6, Zenon DEF Classified
<1> HIDE DEF s
<1>10. ASSUME ~t.continuing \/ t.inOption
       PROVE  OwedBy(t, Left(p)) = <<>>
  BY <1>10, Zenon DEF OwedBy
<1>11. CASE p[1].kind = "hash"
  <2>1. t = [s EXCEPT !.inOption = ~e]
    BY <1>6, <1>9, <1>11
  <2>2. (~e) \in BOOLEAN
    BY <1>2
  <2>3. FlagSet(t, s, s.inComment, ~e, s.continuing)
    BY <1>8, <2>1, <2>2, FlagsSet, Zenon
  <2>4. t.taken = s.taken /\ t.continuing = s.continuing /\ t.inOption = ~e
    BY <2>3, Zenon DEF FlagSet, Numbers
  <2>5. QED
    BY <1>8, <1>10, <2>4, Zenon DEF a, e, t
<1>12. CASE p[1].kind = "bracket" /\ e
  <2>1. t = s
    BY <1>6, <1>9, <1>12
  <2>2. QED
    BY <1>8, <1>10, <1>12, <2>1, Zenon DEF a, e, t
<1>13. QED
  BY <1>3, <1>11, <1>12

\* The cells that end the data of a line.
Stops == {"bang", "word", "hash", "bracket", "nl"}

LEMMA KindsOfCells ==
  ASSUME NEW c \in Cells
  PROVE  /\ c.kind \in Plain <=> c.kind \notin Stops
         /\ c.kind \in Ends => c.kind \in Stops
BY DEF Cells, Plain, Stops, Ends

\* A line read whole: the loader takes its data, or fails, and at a word it has
\* no record begun.
LEMMA WholeLine ==
  ASSUME NEW st \in Loaders, NEW p \in Seq(Cells), p # <<>>, NEW last \in BOOLEAN,
         LineOf(p, last), st.have = Len(st.taken) % PerPoint, ~st.continuing,
         p[1].kind \notin {"hash", "bracket"}, Len(Bite(p)) = Len(p), EndedBy(p, last)
  PROVE  LET t == Chunk(st, Bite(p), EndedBy(p, last))
         IN  t.result # "failed" =>
                /\ t.taken = st.taken \o Ids(DataOf(p)) /\ OwedBy(t, Left(p)) = <<>>
                /\ SaysMore(p) => t.have = 0
<1> DEFINE e == EndedBy(p, last)
           t == Chunk(st, p, e)
           b == Before(p, Ends)
<1>1. Bite(p) = p
  <2>1. /\ Bite(p) \in Seq(Cells) /\ Len(Bite(p)) = Portion(p)
        /\ \A i \in 1..Portion(p) : Bite(p)[i] = p[i]
    BY Bitten
  <2>2. QED
    BY <2>1, SeqEqual
<1>2. Len(p) \in Nat /\ Len(p) > 0 /\ 1 \in 1..Len(p)
  BY LenProperties, EmptySeq
<1>3. DataOf(p) = Before(p, Stops) /\ (SaysMore(p) <=> b # Before(p, Stops))
  <2>1. p # <<>> /\ ~(p[1].kind \in {"hash", "bracket"})
    OBVIOUS
  <2>2. DataOf(p) = Before(p, Stops)
    BY <2>1, Zenon DEF DataOf, Stops
  <2>3. SaysMore(p) <=> b # DataOf(p)
    BY <2>1, Zenon DEF SaysMore, Ends
  <2>4. QED
    BY <2>2, <2>3, Zenon
<1>4. e \in BOOLEAN /\ e
  BY DEF EndedBy
<1> HIDE DEF e
<1>5. PICK u \in Loaders :
         /\ Ready(u, st, p, e)
         /\ t = IF st.continuing /\ st.inComment THEN u
                ELSE Classified(u, Before(p, Ends), st.continuing, e)
  BY <1>4, ChunkIs, Zenon
<1> HIDE DEF t
<1>6. /\ t = Classified(u, b, st.continuing, e) /\ u.taken = st.taken
      /\ u.have = st.have /\ ~u.continuing
  BY <1>4, <1>5, Zenon DEF Ready, Numbers
<1>7. u.have = Len(u.taken) % PerPoint /\ st.taken \in Seq(Int)
  BY <1>6 DEF Loaders
<1>8. PICK k \in 0..Len(p) : CutAt(p, Ends, k) /\ b = SubSeq(p, 1, k)
  BY CutSomewhere
<1>9. b \in Seq(Cells) /\ Len(b) = k /\ \A i \in 1..k : b[i] = p[i]
  BY <1>8, StartOf
<1> HIDE DEF b
<1>10. \A i \in 1..Len(p) : /\ p[i].kind \in Plain <=> p[i].kind \notin Stops
                            /\ p[i].kind \in Ends => p[i].kind \in Stops
  <2>1. \A i \in 1..Len(p) : p[i] \in Cells
    BY ElementOfSeq
  <2>2. QED
    BY <2>1, KindsOfCells
<1>11. CASE b = <<>>
  <2>1. t = u /\ k = 0
    BY <1>6, <1>9, <1>11, EmptySeq DEF Classified
  <2>2. CutAt(p, Stops, 0) /\ 0 \in 0..Len(p)
    <3>1. p[0 + 1].kind \in Ends
      BY <1>2, <1>8, <2>1 DEF CutAt
    <3>2. p[0 + 1].kind \in Stops
      BY <3>1 DEF Ends, Stops
    <3>3. QED
      BY <1>2, <3>2 DEF CutAt
  <2>3. Before(p, Stops) = SubSeq(p, 1, 0)
    BY <2>2, CutThere
  <2>4. Before(p, Stops) = <<>>
    BY <1>8, <1>11, <2>1, <2>3
  <2>5. st.taken \o Ids(<<>>) = st.taken
    BY <1>7, IdsJoin, ConcatEmptySeq
  <2>6. t.taken = st.taken \o Ids(DataOf(p)) /\ ~SaysMore(p)
    BY <1>3, <1>6, <1>11, <2>1, <2>4, <2>5
  <2>7. OwedBy(t, Left(p)) = <<>>
    BY <1>6, <2>1, Zenon DEF OwedBy
  <2>8. QED
    BY <1>1, <2>6, <2>7, Zenon DEF t, e
<1>12. CASE b # <<>>
  <2> DEFINE s == [u EXCEPT !.inOption = FALSE]
  <2>1. FlagSet(s, u, u.inComment, FALSE, u.continuing)
    BY FlagsSet
  <2>2. /\ s \in Loaders /\ s.taken = st.taken /\ s.have = Len(s.taken) % PerPoint
        /\ ~s.continuing
    BY <1>6, <1>7, <2>1, Zenon DEF FlagSet, Numbers
  <2>3. 1 \in 1..k /\ b[1] = p[1]
    <3>1. k # 0
      BY <1>9, <1>12, EmptySeq
    <3>2. 1 \in 1..k
      BY <1>2, <3>1
    <3>3. QED
      BY <1>9, <3>2
  <2>4. t = Take(s, b)
    <3>1. b[1].kind # "hash" /\ b[1].kind # "bracket"
      BY <2>3
    <3>2. QED
      BY <1>6, <1>12, <3>1, Zenon DEF Classified
  <2> HIDE DEF s
  <2>5. ASSUME t.result # "failed"
        PROVE  /\ t.taken = st.taken \o Ids(DataOf(p)) /\ ~t.continuing
               /\ SaysMore(p) => t.have = 0
    <3>1. PICK m \in 0..Len(b) : Halted(t, s, b, m)
      BY <1>9, <2>2, <2>4, <2>5, TakeRuns
    <3>2. /\ \A i \in 1..m : b[i].kind = "num"
          /\ t.taken = st.taken \o Ids(SubSeq(b, 1, m)) /\ ~t.continuing
          /\ m < Len(b) => b[m + 1].kind \notin Plain /\ t.have = 0
      BY <2>2, <3>1 DEF Halted, Took
    <3>3. CutAt(p, Stops, m)
      <4>1. ASSUME NEW i \in 1..m PROVE p[i].kind \notin Stops
        <5>1. i \in 1..k
          BY <1>9
        <5>2. p[i].kind = "num"
          BY <1>9, <3>2, <5>1
        <5>3. QED
          BY <5>2 DEF Stops
      <4>2. ASSUME m < Len(p) PROVE p[m + 1].kind \in Stops
        <5>1. m + 1 \in 1..Len(p) /\ (m < k \/ m = k)
          BY <1>2, <1>9, <4>2
        <5>2. CASE m < k
          <6>1. m + 1 \in 1..k
            BY <1>2, <5>2
          <6>2. p[m + 1].kind \notin Plain
            BY <1>9, <3>2, <5>2, <6>1
          <6>3. QED
            BY <1>10, <5>1, <6>2
        <5>3. CASE m = k
          <6>1. p[m + 1].kind \in Ends
            BY <1>8, <4>2, <5>3 DEF CutAt
          <6>2. QED
            BY <1>10, <5>1, <6>1
        <5>4. QED
          BY <5>1, <5>2, <5>3
      <4>3. QED
        BY <4>1, <4>2 DEF CutAt
    <3>4. m \in 0..Len(p)
      BY <1>2, <1>9
    <3>5. Before(p, Stops) = SubSeq(p, 1, m)
      BY <3>3, <3>4, CutThere
    <3>6. SubSeq(b, 1, m) = SubSeq(p, 1, m)
      <4>1. /\ SubSeq(b, 1, m) \in Seq(Cells) /\ Len(SubSeq(b, 1, m)) = m
            /\ \A i \in 1..m : SubSeq(b, 1, m)[i] = b[i]
        BY <1>9, StartOf
      <4>2. /\ SubSeq(p, 1, m) \in Seq(Cells) /\ Len(SubSeq(p, 1, m)) = m
            /\ \A i \in 1..m : SubSeq(p, 1, m)[i] = p[i]
        BY <3>4, StartOf
      <4>3. \A i \in 1..m : i \in 1..k
        BY <1>9
      <4>4. \A i \in 1..m : SubSeq(b, 1, m)[i] = SubSeq(p, 1, m)[i]
        BY <1>9, <4>1, <4>2, <4>3
      <4>5. QED
        BY <4>1, <4>2, <4>4, SeqEqual
    <3>7. ASSUME SaysMore(p)
          PROVE  m < Len(b)
      <4>1. CASE m = k
        <5>1. b = SubSeq(p, 1, m)
          BY <1>8, <4>1
        <5>2. QED
          BY <1>3, <3>5, <3>7, <5>1
      <4>2. QED
        BY <1>2, <1>9, <4>1
    <3>8. QED
      BY <1>3, <3>2, <3>5, <3>6, <3>7, Zenon
  <2>6. QED
    BY <1>1, <2>5, Zenon DEF t, e, OwedBy
<1>13. QED
  BY <1>11, <1>12

\* A line begun: what it says is taken or still owed.
LEMMA LineBegun ==
  ASSUME NEW st \in Loaders, NEW p \in Seq(Cells), p # <<>>, NEW last \in BOOLEAN,
         LineOf(p, last), st.have = Len(st.taken) % PerPoint,
         ~st.continuing, ~st.inComment,
         Odd(p) => Len(Bite(p)) = Len(p) /\ EndedBy(p, last)
  PROVE  LET t == Chunk(st, Bite(p), EndedBy(p, last))
         IN  t.result # "failed" =>
                /\ t.taken \o Ids(OwedBy(t, Left(p))) = st.taken \o Ids(DataOf(p))
                /\ Kinds(OwedBy(t, Left(p))) \subseteq Plain
                /\ SaysMore(p) => Len(st.taken \o Ids(DataOf(p))) % PerPoint = 0
<1> DEFINE t == Chunk(st, Bite(p), EndedBy(p, last))
           o == OwedBy(t, Left(p))
<1>1. st.taken \in Seq(Int) /\ Ids(<<>>) = <<>> /\ Kinds(<<>>) = {}
  BY IdsJoin DEF Loaders, Kinds
<1>2. /\ t \in Loaders
      /\ t.result # "failed" => t.have = Len(t.taken) % PerPoint
  BY ChunkPlaced DEF Placed
<1>3. t.taken \in Seq(Int)
  BY <1>2 DEF Loaders
<1>4. CASE p[1].kind \in {"hash", "bracket"}
  <2>1. DataOf(p) = <<>> /\ ~SaysMore(p)
    BY <1>4, Zenon DEF DataOf, SaysMore
  <2>2. p[1].kind = "hash" \/ (p[1].kind = "bracket" /\ EndedBy(p, last))
    BY <1>4 DEF Odd
  <2>3. t.taken = st.taken /\ o = <<>>
    BY <2>2, HeaderSkipped
  <2> HIDE DEF t, o
  <2>4. t.taken \o Ids(o) = st.taken \o Ids(DataOf(p)) /\ Kinds(o) \subseteq Plain
    BY <1>1, <2>1, <2>3
  <2>5. QED
    BY <2>1, <2>4 DEF t, o
<1>5. CASE p[1].kind \notin {"hash", "bracket"} /\ Odd(p)
  <2>1. t.result # "failed" => /\ t.taken = st.taken \o Ids(DataOf(p)) /\ o = <<>>
                               /\ SaysMore(p) => t.have = 0
    BY <1>5, WholeLine
  <2> HIDE DEF t, o
  <2>2. t.taken \o <<>> = t.taken
    BY <1>3, ConcatEmptySeq
  <2>3. ASSUME t.result # "failed"
        PROVE  /\ t.taken \o Ids(o) = st.taken \o Ids(DataOf(p))
               /\ Kinds(o) \subseteq Plain
               /\ SaysMore(p) => Len(st.taken \o Ids(DataOf(p))) % PerPoint = 0
    <3>1. t.taken \o Ids(o) = st.taken \o Ids(DataOf(p))
      BY <1>1, <2>1, <2>2, <2>3
    <3>2. Kinds(o) \subseteq Plain
      BY <1>1, <2>1, <2>3
    <3>3. SaysMore(p) => Len(st.taken \o Ids(DataOf(p))) % PerPoint = 0
      BY <1>2, <2>1, <2>3, Zenon
    <3>4. QED
      BY <3>1, <3>2, <3>3
  <2>4. QED
    BY <2>3 DEF t, o
<1>6. CASE p[1].kind \notin {"hash", "bracket"} /\ ~Odd(p)
  <2>1. ~SaysMore(p)
    BY <1>6, Zenon DEF Odd
  <2>2. DataOf(p) = Before(p, Stops) /\ Before(p, Ends) = DataOf(p)
    <3>1. p # <<>> /\ ~(p[1].kind \in {"hash", "bracket"})
      BY <1>6
    <3>2. DataOf(p) = Before(p, Stops)
      BY <3>1, Zenon DEF DataOf, Stops
    <3>3. Before(p, Ends) = DataOf(p)
      BY <2>1, <3>1, Zenon DEF SaysMore, Ends
    <3>4. QED
      BY <3>2, <3>3
  <2>3. Kinds(Before(p, Ends)) \subseteq Plain
    <3>1. \A k \in Kinds(Before(p, Stops)) : k \in Kinds(p) /\ k \notin Stops
      BY BeforeTyped
    <3>2. \A k \in Kinds(p) : k \notin Stops => k \in Plain
      <4>1. DOMAIN p = 1..Len(p)
        BY LenProperties
      <4>2. \A i \in 1..Len(p) : p[i] \in Cells
        BY ElementOfSeq
      <4>3. \A i \in 1..Len(p) : p[i].kind \notin Stops => p[i].kind \in Plain
        BY <4>2, KindsOfCells
      <4>4. QED
        BY <4>1, <4>3 DEF Kinds
    <3>3. QED
      BY <2>2, <3>1, <3>2
  <2>4. t.result # "failed" => /\ t.taken \o Ids(o) = st.taken \o Ids(Before(p, Ends))
                               /\ Kinds(o) \subseteq Plain
    BY <2>3, ChunkTakes
  <2> HIDE DEF t, o
  <2>5. QED
    BY <2>1, <2>2, <2>4 DEF t, o
<1>7. QED
  BY <1>4, <1>5, <1>6
-----------------------------------------------------------------------------
(* The load.                                                               *)

LineState ==
    /\ loader.result = "reading" => Placed(loader, rest.cells, rest.last)
    /\ loader.result = "loaded" => rest.cells = <<>>
\* What was taken, with what the line still owes, is what the lines said.
InStep ==
    loader.result # "failed" /\ ~oddCut =>
        /\ loader.taken \o Ids(OwedBy(loader, rest.cells)) = wanted
        /\ Kinds(OwedBy(loader, rest.cells)) \subseteq Plain
        /\ ~misplaced
LoadInv == TsTypeOK /\ LineState /\ InStep

LEMMA LoadStart == TsInit => LoadInv
<1> SUFFICES ASSUME TsInit PROVE LoadInv
  OBVIOUS
<1>1. <<>> \in Seq(Cells) /\ <<>> \in Seq(Int) /\ Len(<<>>) = 0
  BY EmptySeq
<1>2. 0 \in 0..(PerPoint - 1) /\ 0 \in 0..MaxPoints /\ MaxLines \in 0..MaxLines
      /\ 0 % PerPoint = 0
  BY LoaderFacts
<1>3. TsTypeOK
  BY <1>1, <1>2 DEF TsInit, TsTypeOK, Loaders
<1>4. /\ loader.continuing = FALSE /\ loader.inComment = FALSE /\ loader.have = 0
      /\ loader.taken = <<>> /\ rest.cells = <<>> /\ wanted = <<>> /\ misplaced = FALSE
  BY DEF TsInit
<1>5. LineState
  <2>1. LineOf(<<>>, rest.last)
    BY <1>1 DEF LineOf
  <2>2. QED
    BY <1>1, <1>2, <1>4, <2>1 DEF LineState, Placed, TsInit
<1>6. InStep
  <2>1. OwedBy(loader, rest.cells) = <<>>
    BY <1>4, Zenon DEF OwedBy
  <2>2. Ids(<<>>) = <<>> /\ Kinds(<<>>) = {} /\ <<>> \o <<>> = <<>>
    BY <1>1, IdsJoin, ConcatEmptySeq DEF Kinds
  <2>3. QED
    BY <1>4, <2>1, <2>2 DEF InStep
<1>7. QED
  BY <1>3, <1>5, <1>6 DEF LoadInv

\* fgets and its pass, in the words of the lemmas.
LEMMA FgetsIs ==
  ASSUME NEW p, NEW last, Fgets(p, last)
  PROVE  /\ loader' = Chunk(loader, Bite(p), EndedBy(p, last))
         /\ rest'.cells = Left(p) /\ rest'.last = last
BY DEF Fgets, Bite, Left, EndedBy, Portion

LEMMA ChunkKept == LoadInv /\ NextChunk => LoadInv'
<1> SUFFICES ASSUME LoadInv, NextChunk PROVE LoadInv'
  OBVIOUS
<1> DEFINE p == rest.cells
           last == rest.last
           e == EndedBy(p, last)
<1>1. /\ loader.result = "reading" /\ p # <<>> /\ Fgets(p, last)
      /\ UNCHANGED <<linesLeft, wanted, misplaced, oddCut>>
  BY DEF NextChunk
<1>2. /\ p \in Seq(Cells) /\ last \in BOOLEAN /\ loader \in Loaders
      /\ linesLeft \in 0..MaxLines /\ wanted \in Seq(Int)
      /\ misplaced \in BOOLEAN /\ oddCut \in BOOLEAN
  BY DEF LoadInv, TsTypeOK
<1>3. Placed(loader, p, last)
  BY <1>1, Zenon DEF LoadInv, LineState
<1>4. loader.continuing /\ LineOf(p, last) /\ loader.have = Len(loader.taken) % PerPoint
  BY <1>1, <1>3, Zenon DEF Placed
<1>5. loader' = Chunk(loader, Bite(p), e) /\ rest'.cells = Left(p) /\ rest'.last = last
  <2> HIDE DEF p, last
  <2>1. QED
    BY <1>1, FgetsIs
<1> HIDE DEF p, last
<1>6. /\ loader' \in Loaders
      /\ loader'.result # "failed" =>
            loader'.result = loader.result /\ Placed(loader', Left(p), last)
  BY <1>1, <1>2, <1>4, <1>5, ChunkPlaced
<1>7. Left(p) \in Seq(Cells)
  BY <1>1, <1>2, <1>4, Bitten
<1>8. TsTypeOK'
  BY <1>1, <1>2, <1>5, <1>6, <1>7 DEF TsTypeOK
<1>9. LineState'
  BY <1>1, <1>5, <1>6 DEF LineState
<1>10. ASSUME loader'.result # "failed", ~oddCut
       PROVE  /\ loader'.taken \o Ids(OwedBy(loader', Left(p))) = wanted
              /\ Kinds(OwedBy(loader', Left(p))) \subseteq Plain
              /\ ~misplaced
  <2>1. /\ loader.taken \o Ids(OwedBy(loader, p)) = wanted
        /\ Kinds(OwedBy(loader, p)) \subseteq Plain /\ ~misplaced
    BY <1>1, <1>10 DEF LoadInv, InStep, p
  <2>2. CASE loader.inComment \/ loader.inOption
    <3>1. loader'.taken = loader.taken /\ OwedBy(loader', Left(p)) = <<>>
      BY <1>1, <1>2, <1>4, <1>5, <2>2, ChunkSkips
    <3>2. OwedBy(loader, p) = <<>>
      BY <2>2, Zenon DEF OwedBy
    <3>3. QED
      BY <2>1, <3>1, <3>2
  <2>3. CASE ~(loader.inComment \/ loader.inOption)
    <3>1. OwedBy(loader, p) = Before(p, Ends)
      BY <1>4, <2>3, Zenon DEF OwedBy
    <3>2. /\ Kinds(Before(p, Ends)) \subseteq Plain
          /\ ~loader.inComment /\ ~(loader.continuing /\ loader.inOption)
      BY <2>1, <2>3, <3>1
    <3>3. /\ loader'.taken \o Ids(OwedBy(loader', Left(p))) = loader.taken \o Ids(Before(p, Ends))
          /\ Kinds(OwedBy(loader', Left(p))) \subseteq Plain
      BY <1>1, <1>2, <1>4, <1>5, <1>10, <3>2, ChunkTakes
    <3>4. QED
      BY <2>1, <3>1, <3>3
  <2>4. QED
    BY <2>2, <2>3
<1>11. InStep'
  BY <1>1, <1>5, <1>10 DEF InStep
<1>12. QED
  BY <1>8, <1>9, <1>11 DEF LoadInv

\* A line of the file.
LEMMA LineTyped ==
  ASSUME NEW kinds \in FileLines, NEW last \in BOOLEAN, NEW from \in Int,
         last => kinds # <<>>
  PROVE  LET cells == Labelled(kinds, from)
             line  == IF last THEN cells ELSE Append(cells, NewLine)
         IN  /\ cells \in Seq(Cells)
             /\ line \in Seq(Cells) /\ line # <<>> /\ LineOf(line, last)
             /\ Len(line) = IF last THEN Len(cells) ELSE Len(cells) + 1
<1> DEFINE cells == Labelled(kinds, from)
           line  == IF last THEN cells ELSE Append(cells, NewLine)
           Words == {"num", "bang", "hash", "bracket", "word", "nan"}
           L     == Len(kinds)
<1>1. kinds \in Seq(Words)
  BY TouchstoneAssumption
<1>2. L \in Nat /\ DOMAIN kinds = 1..L /\ \A i \in 1..L : kinds[i] \in Words
  BY <1>1, LenProperties, ElementOfSeq
<1>3. cells = [i \in 1..L |-> [kind |-> kinds[i], id |-> from + i]]
  BY <1>2 DEF Labelled
<1>4. /\ cells \in Seq(Cells) /\ Len(cells) = L
      /\ \A i \in 1..L : cells[i].kind # "nl"
  <2>1. \A i \in 1..L : [kind |-> kinds[i], id |-> from + i] \in Cells /\ kinds[i] # "nl"
    BY <1>2 DEF Cells
  <2> HIDE DEF L
  <2>2. cells \in [1..L -> Cells]
    BY <1>3, <2>1
  <2>3. cells \in Seq(Cells) /\ Len(cells) = L
    BY <1>2, <2>2
  <2>4. \A i \in 1..L : cells[i].kind # "nl"
    BY <1>3, <2>1
  <2>5. QED
    BY <2>3, <2>4
<1> HIDE DEF cells, L
<1>5. CASE last
  <2>1. line = cells
    BY <1>5
  <2>2. cells # <<>>
    <3>1. L # 0
      BY <1>1, <1>5, EmptySeq DEF L
    <3>2. QED
      BY <1>4, <3>1, EmptySeq
  <2>3. LineOf(cells, last)
    BY <1>4, <1>5 DEF LineOf
  <2>4. QED
    BY <1>4, <1>5, <2>1, <2>2, <2>3 DEF cells
<1>6. CASE ~last
  <2> DEFINE w == Append(cells, NewLine)
  <2>1. NewLine \in Cells /\ NewLine.kind = "nl"
    BY DEF NewLine, Cells
  <2>2. /\ w \in Seq(Cells) /\ Len(w) = L + 1 /\ w[L + 1] = NewLine
        /\ \A i \in 1..L : w[i] = cells[i]
    BY <1>4, <2>1, AppendProperties
  <2> HIDE DEF w
  <2>3. LineOf(w, last)
    <3>1. ASSUME NEW i \in 1..(L + 1)
          PROVE  w[i].kind = "nl" <=> i = L + 1
      <4>1. i \in 1..L \/ i = L + 1
        BY <1>2
      <4>2. i \in 1..L => i # L + 1
        BY <1>2
      <4>3. CASE i \in 1..L
        BY <1>4, <2>2, <4>2, <4>3
      <4>4. CASE i = L + 1
        BY <2>1, <2>2, <4>4
      <4>5. QED
        BY <4>1, <4>3, <4>4
    <3>2. QED
      BY <1>6, <2>2, <3>1 DEF LineOf
  <2>4. w # <<>>
    BY <1>2, <2>2, EmptySeq
  <2>5. line = w
    BY <1>6 DEF w
  <2>6. QED
    BY <1>4, <1>6, <2>2, <2>3, <2>4, <2>5 DEF cells
<1>7. QED
  BY <1>5, <1>6

LEMMA LineKept == LoadInv /\ BeginLine => LoadInv'
<1> SUFFICES ASSUME LoadInv, BeginLine PROVE LoadInv'
  OBVIOUS
<1>1. PICK kinds \in FileLines, last \in BOOLEAN :
         LET cells == Labelled(kinds, linesLeft * 10)
             line  == IF last THEN cells ELSE Append(cells, NewLine)
         IN  /\ last => kinds # <<>>
             /\ Fgets(line, last)
             /\ wanted' = wanted \o Ids(DataOf(line))
             /\ misplaced' = (misplaced \/ (SaysMore(line) /\ Len(wanted') % PerPoint # 0))
             /\ oddCut' = (oddCut \/ (Odd(line) /\ Len(cells) + 1 > Buf))
  BY DEF BeginLine
<1>2. /\ loader.result = "reading" /\ rest.cells = <<>> /\ ~rest.last
      /\ linesLeft > 0 /\ linesLeft' = linesLeft - 1
  BY DEF BeginLine
<1>3. /\ loader \in Loaders /\ linesLeft \in 0..MaxLines /\ wanted \in Seq(Int)
      /\ misplaced \in BOOLEAN /\ oddCut \in BOOLEAN
  BY DEF LoadInv, TsTypeOK
<1>4. linesLeft * 10 \in Int /\ linesLeft - 1 \in 0..MaxLines
  BY <1>2, <1>3, LoaderFacts
<1> DEFINE cells == Labelled(kinds, linesLeft * 10)
           p == IF last THEN cells ELSE Append(cells, NewLine)
           e == EndedBy(p, last)
<1>5. /\ cells \in Seq(Cells)
      /\ p \in Seq(Cells) /\ p # <<>> /\ LineOf(p, last)
      /\ Len(p) = IF last THEN Len(cells) ELSE Len(cells) + 1
  BY <1>1, <1>4, LineTyped
<1>6. /\ Fgets(p, last) /\ wanted' = wanted \o Ids(DataOf(p))
      /\ misplaced' = (misplaced \/ (SaysMore(p) /\ Len(wanted') % PerPoint # 0))
      /\ oddCut' = (oddCut \/ (Odd(p) /\ Len(cells) + 1 > Buf))
  BY <1>1
<1> HIDE DEF cells, p
<1>7. loader' = Chunk(loader, Bite(p), e) /\ rest'.cells = Left(p) /\ rest'.last = last
  BY <1>6, FgetsIs
<1>8. /\ ~loader.continuing /\ ~loader.inComment
      /\ loader.have = Len(loader.taken) % PerPoint
  BY <1>2, Zenon DEF LoadInv, LineState, Placed
<1>9. /\ loader' \in Loaders
      /\ loader'.result # "failed" =>
            loader'.result = loader.result /\ Placed(loader', Left(p), last)
  BY <1>3, <1>5, <1>7, <1>8, ChunkPlaced
<1>10. Left(p) \in Seq(Cells)
  BY <1>5, Bitten
<1>11. DataOf(p) \in Seq(Cells) /\ Ids(DataOf(p)) \in Seq(Int)
  <2>1. DataOf(p) = <<>> \/ DataOf(p) = Before(p, Stops)
    BY DEF DataOf, Stops
  <2>2. <<>> \in Seq(Cells) /\ Before(p, Stops) \in Seq(Cells)
    BY <1>5, BeforeTyped, EmptySeq
  <2>3. DataOf(p) \in Seq(Cells)
    BY <2>1, <2>2
  <2>4. QED
    BY <2>3, IdsOf
<1>12. TsTypeOK'
  <2>1. wanted' \in Seq(Int)
    BY <1>3, <1>6, <1>11, ConcatProperties
  <2>2. misplaced' \in BOOLEAN /\ oddCut' \in BOOLEAN
    BY <1>6
  <2>3. QED
    BY <1>2, <1>4, <1>7, <1>9, <1>10, <2>1, <2>2 DEF TsTypeOK
<1>13. LineState'
  BY <1>2, <1>7, <1>9 DEF LineState
<1>14. ASSUME loader'.result # "failed", ~oddCut'
       PROVE  /\ loader'.taken \o Ids(OwedBy(loader', Left(p))) = wanted'
              /\ Kinds(OwedBy(loader', Left(p))) \subseteq Plain
              /\ ~misplaced'
  <2>1. ~oddCut /\ (Odd(p) => ~(Len(cells) + 1 > Buf))
    BY <1>6, <1>14, Zenon
  <2>2. loader.taken = wanted /\ ~misplaced
    <3>1. OwedBy(loader, rest.cells) = <<>>
      BY <1>8, Zenon DEF OwedBy
    <3>2. loader.taken \o Ids(OwedBy(loader, rest.cells)) = wanted /\ ~misplaced
      BY <1>2, <2>1 DEF LoadInv, InStep
    <3>3. loader.taken \o Ids(<<>>) = loader.taken
      <4>1. loader.taken \in Seq(Int)
        BY <1>3 DEF Loaders
      <4>2. QED
        BY <4>1, IdsJoin, ConcatEmptySeq
    <3>4. QED
      BY <3>1, <3>2, <3>3
  <2>3. Odd(p) => Len(Bite(p)) = Len(p) /\ e
    <3>1. SUFFICES ASSUME ~(Len(cells) + 1 > Buf)
                   PROVE  Len(Bite(p)) = Len(p) /\ e
      BY <2>1, Zenon
    <3>2. Len(p) \in Nat /\ Len(p) > 0 /\ Buf \in Nat
      BY <1>5, LenProperties, EmptySeq, LoaderFacts
    <3>3. Len(cells) \in Nat
      BY <1>5, LenProperties
    <3>4. Len(p) <= Buf /\ (last => Len(p) < Buf)
      BY <1>5, <3>1, <3>2, <3>3
    <3>5. Portion(p) = Len(p)
      BY <3>2, <3>4 DEF Portion
    <3>6. /\ Len(Bite(p)) = Portion(p)
          /\ "nl" \in Kinds(Bite(p)) => EndedBy(p, last)
          /\ \A k : k \in Kinds(Bite(p)) <=> \E i \in 1..Portion(p) : p[i].kind = k
      BY <1>5, Bitten
    <3>7. CASE last
      <4>1. Len(p) < Buf
        BY <3>4, <3>7
      <4>2. e
        BY <3>7, <4>1 DEF EndedBy
      <4>3. QED
        BY <3>5, <3>6, <4>2
    <3>8. CASE ~last
      <4>1. Len(p) \in 1..Len(p)
        BY <3>2
      <4>2. p[Len(p)].kind = "nl"
        BY <1>5, <3>8, <4>1 DEF LineOf
      <4>3. "nl" \in Kinds(Bite(p))
        BY <3>5, <3>6, <4>1, <4>2
      <4>4. QED
        BY <3>5, <3>6, <4>3
    <3>9. QED
      BY <3>7, <3>8
  <2>4. /\ loader'.taken \o Ids(OwedBy(loader', Left(p))) = loader.taken \o Ids(DataOf(p))
        /\ Kinds(OwedBy(loader', Left(p))) \subseteq Plain
        /\ SaysMore(p) => Len(loader.taken \o Ids(DataOf(p))) % PerPoint = 0
    BY <1>3, <1>5, <1>7, <1>8, <1>14, <2>3, LineBegun
  <2>5. wanted' = loader.taken \o Ids(DataOf(p))
    BY <1>6, <2>2
  <2>6. SaysMore(p) => Len(wanted') % PerPoint = 0
    BY <2>4, <2>5, Zenon
  <2>7. ~misplaced'
    BY <1>6, <2>2, <2>6, Zenon
  <2>8. QED
    BY <2>4, <2>5, <2>7
<1>15. InStep'
  BY <1>7, <1>14 DEF InStep
<1>16. QED
  BY <1>12, <1>13, <1>15 DEF LoadInv

LEMMA EndKept == LoadInv /\ Finish => LoadInv'
<1> SUFFICES ASSUME LoadInv, Finish PROVE LoadInv'
  OBVIOUS
<1>1. PICK sane \in BOOLEAN :
         loader' = [loader EXCEPT !.result =
                        IF @ = "reading" /\ loader.have = 0 /\ loader.npt >= 2 /\ sane
                        THEN "loaded" ELSE "failed"]
  BY DEF Finish
<1>2. /\ loader.result = "reading" /\ rest.cells = <<>>
      /\ UNCHANGED <<rest, linesLeft, wanted, misplaced, oddCut>>
  BY DEF Finish
<1>3. TsTypeOK
  BY DEF LoadInv
<1>4. PICK verdict \in {"loaded", "failed"} : loader' = [loader EXCEPT !.result = verdict]
  BY <1>1
<1>5. loader' = [inComment |-> loader.inComment, inOption |-> loader.inOption,
                 continuing |-> loader.continuing, have |-> loader.have, npt |-> loader.npt,
                 taken |-> loader.taken, result |-> verdict]
  BY <1>3, <1>4 DEF TsTypeOK, Loaders
<1>6. loader' \in Loaders
  BY <1>3, <1>5 DEF TsTypeOK, Loaders
<1>7. TsTypeOK'
  BY <1>2, <1>3, <1>6 DEF TsTypeOK
<1>8. /\ loader'.result # "reading" /\ loader'.taken = loader.taken
      /\ loader'.continuing = loader.continuing /\ loader'.inComment = loader.inComment
      /\ loader'.inOption = loader.inOption
  BY <1>5
<1>9. LineState'
  BY <1>2, <1>8 DEF LineState
<1>10. InStep'
  <2>1. OwedBy(loader', rest'.cells) = OwedBy(loader, rest.cells)
    BY <1>2, <1>8 DEF OwedBy
  <2>2. ASSUME ~oddCut
        PROVE  /\ loader.taken \o Ids(OwedBy(loader, rest.cells)) = wanted
               /\ Kinds(OwedBy(loader, rest.cells)) \subseteq Plain /\ ~misplaced
    BY <1>2, <2>2 DEF LoadInv, InStep
  <2>3. QED
    BY <1>2, <1>8, <2>1, <2>2 DEF InStep
<1>11. QED
  BY <1>7, <1>9, <1>10 DEF LoadInv

\* A load that stands still.
LEMMA LoadStill == LoadInv /\ UNCHANGED tsVars => LoadInv'
<1> SUFFICES ASSUME LoadInv, UNCHANGED tsVars PROVE LoadInv'
  OBVIOUS
<1>1. /\ rest' = rest /\ linesLeft' = linesLeft /\ loader' = loader /\ wanted' = wanted
      /\ misplaced' = misplaced /\ oddCut' = oddCut
  BY DEF tsVars
<1>2. TsTypeOK'
  BY <1>1 DEF LoadInv, TsTypeOK
<1>3. LineState'
  BY <1>1 DEF LoadInv, LineState
<1>4. InStep'
  BY <1>1 DEF LoadInv, InStep
<1>5. QED
  BY <1>2, <1>3, <1>4 DEF LoadInv

LEMMA LoadAlways == TsSpec => []LoadInv
<1>1. LoadInv /\ [TsNext]_tsVars => LoadInv'
  BY LineKept, ChunkKept, EndKept, LoadStill DEF TsNext
<1>2. QED
  BY LoadStart, <1>1, PTL DEF TsSpec

\* The loader's variables keep their types: in particular a record never holds
\* more than per_point numbers, and there are at most TS_MAX_POINTS of them.
THEOREM LoaderStaysTyped == TsSpec => []TsTypeOK
<1>1. LoadInv => TsTypeOK
  BY DEF LoadInv
<1>2. QED
  BY LoadAlways, <1>1, PTL

\* A load that succeeds took the numbers the file's lines say, in order, and no
\* other, for every size of the buffer, of the record and of the file
\* (touchstone.c:181), unless a line longer than the buffer held a keyword or a
\* stray word, which the loader forgets at the cut (touchstone.c:101).
THEOREM LoadTakesTheFile == TsSpec => []LoadedAsWritten
<1>1. LoadInv => LoadedAsWritten
  <2> SUFFICES ASSUME LoadInv, loader.result = "loaded", ~oddCut
               PROVE  loader.taken = wanted /\ ~misplaced
    BY DEF LoadedAsWritten
  <2>1. /\ loader.taken \o Ids(OwedBy(loader, rest.cells)) = wanted /\ ~misplaced
    BY DEF LoadInv, InStep
  <2>2. OwedBy(loader, rest.cells) = <<>>
    <3>1. rest.cells = <<>>
      BY DEF LoadInv, LineState
    <3>2. Before(<<>>, Ends) = <<>>
      BY BeforeNothing
    <3>3. QED
      BY <3>1, <3>2, Zenon DEF OwedBy
  <2>3. QED
    BY <2>1, <2>2, IdsJoin, ConcatEmptySeq DEF LoadInv, TsTypeOK, Loaders
<1>2. QED
  BY LoadAlways, <1>1, PTL
-----------------------------------------------------------------------------
(* Sums over the taps of a response.                                       *)

\* The constants.
LEMMA ResponseFacts ==
  /\ OlaB \in Nat /\ OlaB > 0 /\ OlaN \in Nat /\ OlaN = OlaB + OlaB
  /\ H \in Seq(Int) /\ Len(H) \in 1..OlaB /\ Hx \in Seq(Int) /\ Len(Hx) \in 1..OlaB
  /\ Inputs \subseteq Seq(Int) /\ Points = 0..(OlaN - 1)
<1>1. /\ OlaB \in Nat /\ OlaB > 0
      /\ H \in Seq(Int) /\ Len(H) \in 1..OlaB /\ Hx \in Seq(Int) /\ Len(Hx) \in 1..OlaB
      /\ Inputs \subseteq Seq(Int)
  BY ChannelAssumption
<1>2. OlaN \in Nat /\ OlaN = OlaB + OlaB
  BY <1>1 DEF OlaN
<1>3. QED
  BY <1>1, <1>2 DEF Points

\* The partial sums of a weighted sum.
SumsOf(s, h, on) ==
    /\ s \in [0..Len(h) -> Int] /\ s[0] = 0
    /\ \A k \in 1..Len(h) : s[k] = s[k - 1] + h[k] * on[k]

LEMMA WeightedSums ==
  ASSUME NEW h \in Seq(Int), NEW on \in [1..Len(h) -> Int]
  PROVE  \E s : SumsOf(s, h, on) /\ Weighted(h, on) = s[Len(h)]
<1> DEFINE L    == Len(h)
           next == [x \in Int \X (1..L) |-> x[1] + h[x[2]] * on[x[2]]]
           Fits(g) == g = [k \in 0..L |-> IF k = 0 THEN 0 ELSE g[k - 1] + h[k] * on[k]]
<1>1. L \in Nat /\ \A k \in 1..L : h[k] \in Int /\ on[k] \in Int /\ h[k] * on[k] \in Int
  <2>1. L \in Nat /\ \A k \in 1..L : h[k] \in Int /\ on[k] \in Int
    BY LenProperties, ElementOfSeq
  <2>2. \A x, y \in Int : x * y \in Int
    OBVIOUS
  <2>3. QED
    BY <2>1, <2>2
<1>2. next \in [Int \X (1..L) -> Int]
  <2>1. ASSUME NEW x \in Int \X (1..L)
        PROVE  x[1] + h[x[2]] * on[x[2]] \in Int
    <3>1. x[1] \in Int /\ x[2] \in 1..L
      OBVIOUS
    <3>2. h[x[2]] * on[x[2]] \in Int
      BY <1>1, <3>1
    <3>3. QED
      BY <3>1, <3>2
  <2>2. QED
    BY <2>1
<1>3. PICK f \in [0..L -> Int] :
         f[0] = 0 /\ \A i \in 1..L : f[i] = next[<<f[i - 1], i>>]
  <2>1. L \in Nat /\ 0 \in Int
    BY <1>1
  <2> HIDE DEF next, L
  <2>2. \E f : Runs(f, Int, L, 0, next)
    BY <2>1, <1>2, Recursion
  <2>3. QED
    BY <2>2 DEF Runs
<1>4. ASSUME NEW i \in 1..L
      PROVE  f[i] = f[i - 1] + h[i] * on[i]
  <2>1. i - 1 \in 0..L
    BY <1>1
  <2>2. <<f[i - 1], i>> \in Int \X (1..L)
    BY <2>1
  <2>3. next[<<f[i - 1], i>>] = f[i - 1] + h[i] * on[i]
    BY <2>2
  <2>4. QED
    BY <1>3, <2>3
<1> HIDE DEF next
<1>5. Fits(f)
  <2>1. ASSUME NEW i \in 0..L
        PROVE  f[i] = IF i = 0 THEN 0 ELSE f[i - 1] + h[i] * on[i]
    <3>1. i = 0 \/ (i \in 1..L /\ i # 0)
      BY <1>1
    <3>2. QED
      BY <1>3, <1>4, <3>1
  <2>2. QED
    BY <2>1
<1>6. ASSUME NEW g, Fits(g)
      PROVE  g = f
  <2> DEFINE Same == {i \in 0..L : g[i] = f[i]}
  <2>1. g = [k \in 0..L |-> IF k = 0 THEN 0 ELSE g[k - 1] + h[k] * on[k]]
    BY <1>6
  <2>2. /\ DOMAIN g = 0..L
        /\ \A i \in 0..L : g[i] = IF i = 0 THEN 0 ELSE g[i - 1] + h[i] * on[i]
    BY <2>1, Zenon
  <2>3. g = [i \in 0..L |-> g[i]]
    BY <2>1, <2>2, Zenon
  <2>4. 0 \in 0..L /\ \A i \in 1..L : i \in 0..L /\ i # 0
    BY <1>1
  <2>5. g[0] = 0 /\ \A i \in 1..L : g[i] = g[i - 1] + h[i] * on[i]
    BY <2>2, <2>4, Zenon
  <2>6. 0 \in Same
    BY <1>3, <2>4, <2>5, Zenon
  <2>7. ASSUME NEW k \in 0..(L - 1), k \in Same
        PROVE  k + 1 \in Same
    <3>1. k + 1 \in 1..L /\ (k + 1) - 1 = k /\ k + 1 \in 0..L
      BY <1>1
    <3>2. g[k] = f[k]
      BY <2>7
    <3>3. g[k + 1] = g[k] + h[k + 1] * on[k + 1] /\ f[k + 1] = f[k] + h[k + 1] * on[k + 1]
      BY <1>4, <2>5, <3>1, Zenon
    <3>4. QED
      BY <3>1, <3>2, <3>3, Zenon
  <2>8. \A k \in 0..L : k \in Same
    <3> HIDE DEF Same, L
    <3>1. QED
      BY <1>1, <2>6, <2>7, Climb
  <2>9. QED
    BY <2>3, <2>8
<1>7. Weighted(h, on) = (CHOOSE g : Fits(g))[L]
  BY DEF Weighted
<1>8. (CHOOSE g : Fits(g)) = f
  <2> HIDE DEF Fits
  <2>1. QED
    BY <1>5, <1>6
<1>9. QED
  BY <1>3, <1>4, <1>7, <1>8 DEF SumsOf

\* A weighted sum is a number, and adding what the taps fall on adds the sums.
LEMMA WeightedTyped ==
  ASSUME NEW h \in Seq(Int), NEW on \in [1..Len(h) -> Int]
  PROVE  Weighted(h, on) \in Int
<1>1. PICK s : SumsOf(s, h, on) /\ Weighted(h, on) = s[Len(h)]
  BY WeightedSums
<1>2. Len(h) \in 0..Len(h)
  BY LenProperties
<1>3. QED
  BY <1>1, <1>2 DEF SumsOf

LEMMA WeightedAdds ==
  ASSUME NEW h \in Seq(Int), NEW u \in [1..Len(h) -> Int], NEW v \in [1..Len(h) -> Int],
         NEW w \in [1..Len(h) -> Int], \A k \in 1..Len(h) : w[k] = u[k] + v[k]
  PROVE  Weighted(h, w) = Weighted(h, u) + Weighted(h, v)
<1>1. PICK a : SumsOf(a, h, u) /\ Weighted(h, u) = a[Len(h)]
  BY WeightedSums
<1>2. PICK b : SumsOf(b, h, v) /\ Weighted(h, v) = b[Len(h)]
  BY WeightedSums
<1>3. PICK c : SumsOf(c, h, w) /\ Weighted(h, w) = c[Len(h)]
  BY WeightedSums
<1> DEFINE L == Len(h)
           S == {k \in 0..L : c[k] = a[k] + b[k]}
<1>4. L \in Nat /\ \A k \in 1..L : h[k] \in Int
  BY LenProperties, ElementOfSeq
<1>5. 0 \in S
  BY <1>1, <1>2, <1>3, <1>4 DEF SumsOf
<1>6. ASSUME NEW k \in 0..(L - 1), k \in S
      PROVE  k + 1 \in S
  <2>1. k + 1 \in 1..L /\ (k + 1) - 1 = k /\ k + 1 \in 0..L /\ k \in 0..L
    BY <1>4
  <2>2. /\ a[k + 1] = a[k] + h[k + 1] * u[k + 1]
        /\ b[k + 1] = b[k] + h[k + 1] * v[k + 1]
        /\ c[k + 1] = c[k] + h[k + 1] * w[k + 1]
    BY <1>1, <1>2, <1>3, <2>1 DEF SumsOf
  <2>3. /\ a[k] \in Int /\ b[k] \in Int /\ c[k] = a[k] + b[k] /\ h[k + 1] \in Int
        /\ u[k + 1] \in Int /\ v[k + 1] \in Int /\ w[k + 1] = u[k + 1] + v[k + 1]
    BY <1>1, <1>2, <1>4, <1>6, <2>1 DEF SumsOf
  <2>4. \A p, q, x, y, z \in Int : (p + q) + z * (x + y) = (p + z * x) + (q + z * y)
    OBVIOUS
  <2>5. c[k + 1] = a[k + 1] + b[k + 1]
    BY <2>2, <2>3, <2>4
  <2>6. QED
    BY <2>1, <2>5
<1>7. L \in S
  <2>1. \A k \in 0..L : k \in S
    <3> HIDE DEF S, L
    <3>1. QED
      BY <1>4, <1>5, <1>6, Climb
  <2>2. L \in 0..L
    BY <1>4
  <2>3. QED
    BY <2>1, <2>2
<1>8. QED
  BY <1>1, <1>2, <1>3, <1>7

\* Taps that fall on nothing sum to nothing.
LEMMA WeightedNothing ==
  ASSUME NEW h \in Seq(Int), NEW u \in [1..Len(h) -> Int], \A k \in 1..Len(h) : u[k] = 0
  PROVE  Weighted(h, u) = 0
<1>1. \A k \in 1..Len(h) : u[k] = u[k] + u[k]
  OBVIOUS
<1>2. Weighted(h, u) = Weighted(h, u) + Weighted(h, u)
  BY <1>1, WeightedAdds
<1>3. Weighted(h, u) \in Int
  BY WeightedTyped
<1>4. QED
  BY <1>2, <1>3
-----------------------------------------------------------------------------
(* What the samples so far owe to those to come.                           *)

\* A sample of a, if it is among the first n.
Cut(a, n, i)      == IF i <= n THEN At(a, i) ELSE 0
Under(h, a, n, i) == [k \in 1..Len(h) |-> Cut(a, n, i - k + 1)]
\* The convolution at i, of the first n samples and of all.
Owed(h, a, n, i)  == Weighted(h, Under(h, a, n, i))
Sounds(h, a, i)   == Weighted(h, [k \in 1..Len(h) |-> At(a, i - k + 1)])
\* A tail after n samples: sample by sample, what is still to come of them.
Owes(t, h, a, n)  == \A i \in Points : t[i] = Owed(h, a, n, n + i + 1)

Responses == {h \in Seq(Int) : Len(h) \in 1..OlaB}
Tails     == [Points -> Int]
Emitted   == [y : Seq(Int), tail : Tails]

LEMMA AtTyped ==
  ASSUME NEW a \in Seq(Int), NEW i \in Int
  PROVE  At(a, i) \in Int
<1>1. i \in 1..Len(a) => a[i] \in Int
  BY ElementOfSeq
<1>2. QED
  BY <1>1 DEF At

LEMMA UnderTyped ==
  ASSUME NEW h \in Responses, NEW a \in Seq(Int), NEW n \in Int, NEW i \in Int
  PROVE  /\ Under(h, a, n, i) \in [1..Len(h) -> Int]
         /\ [k \in 1..Len(h) |-> At(a, i - k + 1)] \in [1..Len(h) -> Int]
         /\ Owed(h, a, n, i) \in Int /\ Sounds(h, a, i) \in Int
<1>1. h \in Seq(Int) /\ Len(h) \in Nat
  BY LenProperties DEF Responses
<1>2. \A k \in 1..Len(h) : At(a, i - k + 1) \in Int
  BY <1>1, AtTyped
<1>3. \A k \in 1..Len(h) : Cut(a, n, i - k + 1) \in Int
  BY <1>2 DEF Cut
<1>4. /\ Under(h, a, n, i) \in [1..Len(h) -> Int]
      /\ [k \in 1..Len(h) |-> At(a, i - k + 1)] \in [1..Len(h) -> Int]
  BY <1>2, <1>3 DEF Under
<1>5. QED
  BY <1>1, <1>4, WeightedTyped DEF Owed, Sounds

\* Up to n the first n samples are all there is to hear, ...
LEMMA OwedSounds ==
  ASSUME NEW h \in Responses, NEW a \in Seq(Int), NEW n \in Int, NEW i \in Int,
         i <= n \/ n >= Len(a)
  PROVE  Owed(h, a, n, i) = Sounds(h, a, i)
<1>1. Len(h) \in Nat /\ Len(a) \in Nat
  BY LenProperties DEF Responses
<1>2. ASSUME NEW k \in 1..Len(h)
      PROVE  Cut(a, n, i - k + 1) = At(a, i - k + 1)
  <2>1. i - k + 1 \in Int /\ i - k + 1 <= i /\ (i - k + 1 > n => i - k + 1 \notin 1..Len(a))
    BY <1>1
  <2>2. QED
    BY <2>1 DEF Cut, At
<1>3. Under(h, a, n, i) = [k \in 1..Len(h) |-> At(a, i - k + 1)]
  BY <1>2 DEF Under
<1>4. QED
  BY <1>3 DEF Owed, Sounds

\* ... and a response's length later nothing is heard of them.
LEMMA OwedNothing ==
  ASSUME NEW h \in Responses, NEW a \in Seq(Int), NEW n \in Int, NEW i \in Int,
         i >= n + Len(h)
  PROVE  Owed(h, a, n, i) = 0
<1>1. h \in Seq(Int) /\ Len(h) \in Nat
  BY LenProperties DEF Responses
<1>2. \A k \in 1..Len(h) : ~(i - k + 1 <= n)
  BY <1>1
<1>3. \A k \in 1..Len(h) : Under(h, a, n, i)[k] = 0
  BY <1>2 DEF Under, Cut
<1>4. QED
  BY <1>1, <1>3, UnderTyped, WeightedNothing DEF Owed

\* The product of the transforms of a response and of a block, whose lengths
\* fit twice the block, is their convolution and does not come round.
LEMMA CircularIsLinear ==
  ASSUME NEW h \in Responses, NEW x \in Seq(Int), Len(x) <= OlaB, NEW i \in Points
  PROVE  Circular(h, x)[i] = Sounds(h, x, i + 1)
<1>1. /\ OlaB \in Nat /\ OlaB > 0 /\ OlaN \in Nat /\ OlaN = OlaB + OlaB /\ OlaN > 0
      /\ Points = 0..(OlaN - 1) /\ Len(x) \in Nat /\ Len(h) \in 1..OlaB
  BY ResponseFacts, LenProperties DEF Responses
<1>2. ASSUME NEW k \in 1..Len(h)
      PROVE  At(x, ((i - k + 1) % OlaN) + 1) = At(x, (i + 1) - k + 1)
  <2>1. i \in Int /\ k \in Int /\ 0 <= i /\ i < OlaN /\ 1 <= k /\ k <= OlaB
    BY <1>1
  <2>2. CASE k <= i + 1
    <3>1. i - k + 1 \in 0..(OlaN - 1)
      BY <1>1, <2>1, <2>2
    <3>2. (i - k + 1) % OlaN = i - k + 1
      BY <1>1, <3>1, ModWithin
    <3>3. ((i - k + 1) % OlaN) + 1 = (i + 1) - k + 1
      BY <2>1, <3>2
    <3>4. QED
      BY <3>3
  <2>3. CASE k > i + 1
    <3> DEFINE r == (i - k + 1) % OlaN
    <3>1. i - k + 1 \in Int /\ i - k + 1 < 0 /\ i - k + 1 >= 1 - OlaB
      BY <1>1, <2>1, <2>3
    <3>2. r = (i - k + 1) + OlaN
      <4>1. i - k + 1 \in (1 - OlaN)..(-1)
        BY <1>1, <3>1
      <4>2. QED
        BY <1>1, <4>1, ModWithin
    <3>3. r + 1 \notin 1..Len(x) /\ (i + 1) - k + 1 \notin 1..Len(x)
      BY <1>1, <2>1, <2>3, <3>1, <3>2
    <3>4. QED
      BY <3>3 DEF At
  <2>4. QED
    BY <2>1, <2>2, <2>3
<1>3. [k \in 1..Len(h) |-> At(x, ((i - k + 1) % OlaN) + 1)]
        = [k \in 1..Len(h) |-> At(x, (i + 1) - k + 1)]
  BY <1>2
<1>4. QED
  BY <1>3 DEF Circular, Sounds

\* A tail with the next block's product on it is the tail of both.
LEMMA TailAdds ==
  ASSUME NEW h \in Responses, NEW a \in Seq(Int), NEW n \in Nat, NEW x \in Seq(Int),
         n + Len(x) <= Len(a), \A j \in 1..Len(x) : x[j] = a[n + j], NEW i \in Nat
  PROVE  Owed(h, a, n + Len(x), n + i + 1) = Owed(h, a, n, n + i + 1) + Sounds(h, x, i + 1)
<1> DEFINE m == Len(x)
           u == Under(h, a, n, n + i + 1)
           v == [k \in 1..Len(h) |-> At(x, (i + 1) - k + 1)]
           w == Under(h, a, n + m, n + i + 1)
<1>1. m \in Nat /\ Len(a) \in Nat /\ h \in Seq(Int) /\ Len(h) \in Nat
  BY LenProperties DEF Responses
<1>2. u \in [1..Len(h) -> Int] /\ w \in [1..Len(h) -> Int]
  BY <1>1, UnderTyped
<1>3. v \in [1..Len(h) -> Int]
  <2>1. \A k \in 1..Len(h) : (i + 1) - k + 1 \in Int
    BY <1>1
  <2>2. \A k \in 1..Len(h) : At(x, (i + 1) - k + 1) \in Int
    BY <2>1, AtTyped
  <2>3. QED
    BY <2>2
<1>4. ASSUME NEW k \in 1..Len(h)
      PROVE  w[k] = u[k] + v[k]
  <2> DEFINE j == (i + 1) - k + 1
  <2>1. j \in Int /\ (n + i + 1) - k + 1 = n + j
    BY <1>1
  <2> HIDE DEF j
  <2>2. w[k] = Cut(a, n + m, n + j) /\ u[k] = Cut(a, n, n + j) /\ v[k] = At(x, j)
    BY <2>1 DEF Under, j
  <2>3. At(a, n + j) \in Int
    BY <2>1, AtTyped
  <2>4. CASE j <= 0
    <3>1. n + j <= n /\ n + j <= n + m /\ j \notin 1..m
      BY <1>1, <2>1, <2>4
    <3>2. QED
      BY <2>2, <2>3, <3>1 DEF Cut, At
  <2>5. CASE j > 0 /\ j <= m
    <3>1. ~(n + j <= n) /\ n + j <= n + m /\ j \in 1..m /\ n + j \in 1..Len(a)
      <4>1. n + m <= Len(a)
        OBVIOUS
      <4> HIDE DEF m
      <4>2. \A l \in Nat : n + m <= l => n + j \in 1..l
        BY <1>1, <2>1, <2>5
      <4>3. n + j \in 1..Len(a)
        BY <1>1, <4>1, <4>2
      <4>4. ~(n + j <= n) /\ n + j <= n + m /\ j \in 1..m
        BY <1>1, <2>1, <2>5
      <4>5. QED
        BY <4>3, <4>4, Zenon
    <3>2. At(x, j) = At(a, n + j)
      BY <3>1 DEF At
    <3>3. Cut(a, n, n + j) = 0 /\ Cut(a, n + m, n + j) = At(a, n + j)
      BY <3>1 DEF Cut
    <3>4. QED
      BY <2>2, <2>3, <3>2, <3>3
  <2>6. CASE j > m
    <3>1. ~(n + j <= n) /\ ~(n + j <= n + m) /\ j \notin 1..m
      BY <1>1, <2>1, <2>6
    <3>2. QED
      BY <2>2, <3>1 DEF Cut, At
  <2>7. QED
    BY <1>1, <2>1, <2>4, <2>5, <2>6
<1>5. QED
  <2> HIDE DEF u, v, w
  <2>1. Weighted(h, w) = Weighted(h, u) + Weighted(h, v)
    BY <1>1, <1>2, <1>3, <1>4, WeightedAdds
  <2>2. QED
    BY <2>1 DEF u, v, w, Owed, Sounds

\* Samples, and samples after samples.
LEMMA SamplesAre ==
  ASSUME NEW m \in Nat, NEW f \in [1..m -> Int]
  PROVE  f \in Seq(Int) /\ Len(f) = m /\ <<>> \o f = f
<1>1. f \in Seq(Int) /\ Len(f) = m
  OBVIOUS
<1>2. QED
  BY <1>1, ConcatEmptySeq

LEMMA SamplesJoin ==
  ASSUME NEW p \in Seq(Int), NEW q \in Seq(Int)
  PROVE  /\ p \o q \in Seq(Int) /\ Len(p \o q) = Len(p) + Len(q)
         /\ \A j \in 1..Len(p) : (p \o q)[j] = p[j]
         /\ \A j \in 1..Len(q) : (p \o q)[Len(p) + j] = q[j]
<1>1. Len(p) \in Nat /\ Len(q) \in Nat
  BY LenProperties
<1>2. /\ p \o q \in Seq(Int) /\ Len(p \o q) = Len(p) + Len(q)
      /\ \A i \in 1..(Len(p) + Len(q)) :
            (p \o q)[i] = IF i <= Len(p) THEN p[i] ELSE q[i - Len(p)]
  BY ConcatProperties
<1>3. \A j \in 1..Len(p) : j \in 1..(Len(p) + Len(q)) /\ j <= Len(p)
  BY <1>1
<1>4. \A j \in 1..Len(q) : /\ Len(p) + j \in 1..(Len(p) + Len(q)) /\ ~(Len(p) + j <= Len(p))
                            /\ Len(p) + j - Len(p) = j
  BY <1>1
<1>5. QED
  BY <1>2, <1>3, <1>4

\* One block more: it emits the convolution at its samples, and leaves the tail
\* of all samples so far.
Extends(st, was, h, a, n, m) ==
    /\ st \in Emitted /\ Len(st.y) = Len(was.y) + m
    /\ \A j \in 1..Len(was.y) : st.y[j] = was.y[j]
    /\ \A j \in 1..m : st.y[Len(was.y) + j] = Sounds(h, a, n + j)
    /\ Owes(st.tail, h, a, n + m)

LEMMA PassExtends ==
  ASSUME NEW h \in Responses, NEW a \in Seq(Int), NEW n \in Nat, NEW x \in Seq(Int),
         Len(x) <= OlaB, n + Len(x) <= Len(a), \A j \in 1..Len(x) : x[j] = a[n + j],
         NEW was \in Emitted, Owes(was.tail, h, a, n)
  PROVE  Extends(Pass(h, was, x), was, h, a, n, Len(x))
<1> DEFINE m    == Len(x)
           c    == Circular(h, x)
           sum  == [i \in Points |-> was.tail[i] + c[i]]
           e    == [i \in 1..m |-> sum[i - 1]]
           y    == was.y \o e
           tail == Shifted(sum, m)
           st   == Pass(h, was, x)
<1>1. /\ OlaB \in Nat /\ OlaB > 0 /\ OlaN \in Nat /\ OlaN = OlaB + OlaB
      /\ Points = 0..(OlaN - 1) /\ m \in Nat /\ m <= OlaB /\ Len(h) \in 1..OlaB
      /\ Len(a) \in Nat
  BY ResponseFacts, LenProperties DEF Responses
<1>2. was.y \in Seq(Int) /\ was.tail \in [Points -> Int] /\ Len(was.y) \in Nat
  BY LenProperties DEF Emitted, Tails
<1>3. ASSUME NEW i \in Points
      PROVE  sum[i] = Owed(h, a, n + m, n + i + 1) /\ sum[i] \in Int
  <2>1. i \in Nat /\ n + m \in Int /\ n + i + 1 \in Int
    BY <1>1
  <2>2. was.tail[i] = Owed(h, a, n, n + i + 1)
    BY DEF Owes
  <2>3. c[i] = Sounds(h, x, i + 1)
    BY <1>1, CircularIsLinear
  <2>4. Owed(h, a, n + m, n + i + 1) = Owed(h, a, n, n + i + 1) + Sounds(h, x, i + 1)
    <3>1. n + m <= Len(a) /\ \A j \in 1..m : x[j] = a[n + j]
      OBVIOUS
    <3>2. QED
      BY <2>1, <3>1, TailAdds, Zenon
  <2>5. sum[i] = was.tail[i] + c[i]
    OBVIOUS
  <2>6. Owed(h, a, n + m, n + i + 1) \in Int
    BY <2>1, UnderTyped
  <2> HIDE DEF sum, c
  <2>7. QED
    BY <2>2, <2>3, <2>4, <2>5, <2>6
<1> HIDE DEF sum, c
<1>4. \A j \in 1..m : j - 1 \in Points /\ sum[j - 1] \in Int
  <2>1. \A j \in 1..m : j - 1 \in Points
    BY <1>1
  <2>2. QED
    BY <2>1, <1>3
<1>5. e \in Seq(Int) /\ Len(e) = m /\ \A j \in 1..m : e[j] = sum[j - 1]
  <2>1. e \in [1..m -> Int] /\ \A j \in 1..m : e[j] = sum[j - 1]
    BY <1>4
  <2> HIDE DEF e
  <2>2. QED
    BY <1>1, <2>1, SamplesAre
<1>6. \A j \in 1..m : e[j] = Sounds(h, a, n + j)
  <2>1. ASSUME NEW j \in 1..m
        PROVE  e[j] = Sounds(h, a, n + j)
    <3>1. j - 1 \in Points /\ n + (j - 1) + 1 = n + j /\ n + j <= n + m /\ n + j \in Int
          /\ n + m \in Int
      BY <1>1, <1>4
    <3>2. sum[j - 1] = Owed(h, a, n + m, n + (j - 1) + 1)
      BY <1>3, <3>1
    <3>3. Owed(h, a, n + m, n + j) = Sounds(h, a, n + j)
      BY <3>1, OwedSounds
    <3>4. QED
      BY <1>5, <3>1, <3>2, <3>3
  <2>2. QED
    BY <2>1
<1> HIDE DEF e
<1>7. /\ y \in Seq(Int) /\ Len(y) = Len(was.y) + m
      /\ \A j \in 1..Len(was.y) : y[j] = was.y[j]
      /\ \A j \in 1..m : y[Len(was.y) + j] = e[j]
  <2> DEFINE p == was.y
  <2>1. p \in Seq(Int) /\ e \in Seq(Int) /\ Len(e) = m
    BY <1>2, <1>5
  <2> HIDE DEF p
  <2>2. /\ p \o e \in Seq(Int) /\ Len(p \o e) = Len(p) + Len(e)
        /\ \A j \in 1..Len(p) : (p \o e)[j] = p[j]
        /\ \A j \in 1..Len(e) : (p \o e)[Len(p) + j] = e[j]
    BY <2>1, SamplesJoin
  <2>3. QED
    BY <2>1, <2>2 DEF p
<1>8. \A i \in Points : tail[i] = Owed(h, a, n + m, n + m + i + 1) /\ tail[i] \in Int
  <2>1. ASSUME NEW i \in Points
        PROVE  tail[i] = Owed(h, a, n + m, n + m + i + 1) /\ tail[i] \in Int
    <3>1. i \in Nat /\ n + m \in Int /\ n + m + i + 1 \in Int
      BY <1>1
    <3>2. tail[i] = IF i + m < OlaN THEN sum[i + m] ELSE 0
      BY DEF Shifted
    <3>3. CASE i + m < OlaN
      <4>1. i + m \in Points /\ n + (i + m) + 1 = n + m + i + 1
        BY <1>1, <3>1, <3>3
      <4>2. sum[i + m] = Owed(h, a, n + m, n + (i + m) + 1) /\ sum[i + m] \in Int
        BY <1>3, <4>1
      <4>3. QED
        BY <3>2, <3>3, <4>1, <4>2
    <3>4. CASE ~(i + m < OlaN)
      <4>1. n + m + i + 1 >= (n + m) + Len(h)
        BY <1>1, <3>1, <3>4
      <4>2. Owed(h, a, n + m, n + m + i + 1) = 0
        BY <3>1, <4>1, OwedNothing
      <4>3. QED
        BY <3>2, <3>4, <4>2
    <3>5. QED
      BY <3>3, <3>4
  <2>2. QED
    BY <2>1
<1>9. st = [y |-> y, tail |-> tail]
  BY DEF Pass, sum, c, e
<1>10. tail \in Tails
  <2>1. tail = [i \in Points |-> IF i + m < OlaN THEN sum[i + m] ELSE 0]
    BY DEF Shifted
  <2>2. tail = [i \in Points |-> tail[i]]
    BY <2>1
  <2> HIDE DEF tail
  <2>3. QED
    BY <1>8, <2>2 DEF Tails
<1>11. st.y = y /\ st.tail = tail
  BY <1>9
<1>12. st \in Emitted
  <2> HIDE DEF y, tail
  <2>1. QED
    BY <1>7, <1>9, <1>10 DEF Emitted
<1>13. Owes(st.tail, h, a, n + m)
  <2> HIDE DEF tail, st
  <2>1. QED
    BY <1>8, <1>11 DEF Owes
<1>14. QED
  <2> HIDE DEF y, tail, st
  <2>1. \A j \in 1..m : y[Len(was.y) + j] = Sounds(h, a, n + j)
    BY <1>6, <1>7
  <2>2. /\ Len(st.y) = Len(was.y) + m
        /\ \A j \in 1..Len(was.y) : st.y[j] = was.y[j]
        /\ \A j \in 1..m : st.y[Len(was.y) + j] = Sounds(h, a, n + j)
    BY <1>7, <1>11, <2>1
  <2>3. Extends(st, was, h, a, n, m)
    BY <1>12, <1>13, <2>2 DEF Extends
  <2>4. QED
    BY <2>3 DEF st

\* The blocks of a call, and the samples up to each.
BlocksOf(n)  == (n + OlaB - 1) \div OlaB
UptoOf(n, b) == IF b * OlaB < n THEN b * OlaB ELSE n
LEMMA BlockCuts ==
  ASSUME NEW n \in Nat
  PROVE  /\ BlocksOf(n) \in Nat /\ UptoOf(n, 0) = 0 /\ UptoOf(n, BlocksOf(n)) = n
         /\ \A b \in 1..BlocksOf(n) :
               /\ (b - 1) * OlaB \in Nat /\ UptoOf(n, b - 1) = (b - 1) * OlaB
               /\ UptoOf(n, b) \in 0..n /\ UptoOf(n, b) > (b - 1) * OlaB
               /\ UptoOf(n, b) <= (b - 1) * OlaB + OlaB
<1> DEFINE q == BlocksOf(n)
           r == (n + OlaB - 1) % OlaB
<1>1. OlaB \in Nat /\ OlaB > 0
  BY ResponseFacts
<1>2. n + OlaB - 1 = OlaB * q + r /\ r \in 0..(OlaB - 1) /\ q \in Nat
  <2>1. n + OlaB - 1 \in Nat
    BY <1>1
  <2>2. QED
    BY <1>1, <2>1, DivMod DEF BlocksOf
<1> HIDE DEF q, r
<1>3. OlaB * q = q * OlaB /\ q * OlaB \in Nat /\ q * OlaB >= n /\ q * OlaB <= n + OlaB - 1
  <2>1. OlaB * q = q * OlaB /\ q * OlaB \in Nat
    BY <1>1, <1>2
  <2>2. PICK z \in Nat : z = q * OlaB
    BY <2>1
  <2>3. n + OlaB - 1 = z + r
    BY <1>2, <2>1, <2>2
  <2>4. z >= n /\ z <= n + OlaB - 1
    BY <1>1, <1>2, <2>3
  <2>5. QED
    BY <2>1, <2>2, <2>4
<1>4. 0 * OlaB = 0
  BY <1>1
<1>5. UptoOf(n, 0) = 0
  BY <1>4 DEF UptoOf
<1>6. UptoOf(n, q) = n
  BY <1>3 DEF UptoOf
<1>7. ASSUME NEW b \in 1..q
      PROVE  /\ (b - 1) * OlaB \in Nat /\ UptoOf(n, b - 1) = (b - 1) * OlaB
             /\ UptoOf(n, b) \in 0..n /\ UptoOf(n, b) > (b - 1) * OlaB
             /\ UptoOf(n, b) <= (b - 1) * OlaB + OlaB
  <2>1. b \in Nat /\ b - 1 \in Nat /\ q - b \in Nat
    BY <1>2
  <2>2. PICK lo \in Nat : lo = (b - 1) * OlaB
    BY <1>1, <2>1
  <2>3. b * OlaB = lo + OlaB
    BY <1>1, <2>1, <2>2
  <2>4. PICK up \in Nat : up = (q - b) * OlaB
    BY <1>1, <2>1
  <2>5. q * OlaB = (lo + OlaB) + up
    <3>1. \A x, y, z \in Int : (x - y) * z + y * z = x * z
      OBVIOUS
    <3>2. (q - b) * OlaB + b * OlaB = q * OlaB
      BY <1>1, <1>2, <2>1, <3>1
    <3>3. q * OlaB = up + (lo + OlaB)
      BY <2>3, <2>4, <3>2
    <3>4. up + (lo + OlaB) = (lo + OlaB) + up
      BY <1>1, <2>2, <2>4
    <3>5. QED
      BY <3>3, <3>4
  <2>6. PICK z \in Nat : z = q * OlaB
    BY <1>3
  <2>7. lo < n
    BY <1>1, <1>3, <2>5, <2>6
  <2>8. UptoOf(n, b - 1) = lo
    BY <2>2, <2>7 DEF UptoOf
  <2>9. UptoOf(n, b) = IF lo + OlaB < n THEN lo + OlaB ELSE n
    BY <2>3 DEF UptoOf
  <2>10. UptoOf(n, b) \in 0..n /\ UptoOf(n, b) > lo /\ UptoOf(n, b) <= lo + OlaB
    BY <1>1, <2>7, <2>9
  <2>11. QED
    BY <2>2, <2>8, <2>10
<1>8. QED
  BY <1>2, <1>5, <1>6, <1>7 DEF q

\* The start of the call's samples up to u has been heard.
Heeds(st, h, p, xs, u) ==
    /\ st \in Emitted /\ Len(st.y) = u
    /\ \A j \in 1..u : st.y[j] = Sounds(h, p \o xs, Len(p) + j)
    /\ Owes(st.tail, h, p \o xs, Len(p) + u)

PieceOf(xs, b) == SubSeq(xs, (b - 1) * OlaB + 1, UptoOf(Len(xs), b))
LEMMA PieceIs ==
  ASSUME NEW p \in Seq(Int), NEW xs \in Seq(Int), NEW b \in 1..BlocksOf(Len(xs)),
         NEW lo \in Nat, lo = (b - 1) * OlaB
  PROVE  LET x == PieceOf(xs, b)
         IN  /\ x \in Seq(Int) /\ Len(x) = UptoOf(Len(xs), b) - lo /\ Len(x) <= OlaB
             /\ (Len(p) + lo) + Len(x) <= Len(p \o xs)
             /\ \A j \in 1..Len(x) : x[j] = (p \o xs)[(Len(p) + lo) + j]
<1> DEFINE x == PieceOf(xs, b)
           hi == UptoOf(Len(xs), b)
<1>1. /\ Len(p) \in Nat /\ Len(xs) \in Nat /\ OlaB \in Nat /\ lo \in Nat
      /\ hi \in 0..Len(xs) /\ hi > lo /\ hi <= lo + OlaB
  BY ResponseFacts, LenProperties, BlockCuts
<1>2. x = SubSeq(xs, lo + 1, hi)
  BY DEF PieceOf
<1> HIDE DEF x, hi
<1>3. \A i \in (lo + 1)..hi : xs[i] \in Int
  <2>1. \A i \in (lo + 1)..hi : i \in 1..Len(xs)
    BY <1>1
  <2>2. QED
    BY <2>1, ElementOfSeq
<1>4. lo + 1 \in Int /\ hi \in Int
  BY <1>1
<1>5. /\ x \in Seq(Int) /\ Len(x) = (IF lo + 1 <= hi THEN hi - (lo + 1) + 1 ELSE 0)
      /\ \A i \in 1..(hi - (lo + 1) + 1) : x[i] = xs[(lo + 1) + i - 1]
  BY <1>2, <1>3, <1>4, SubSeqProperties, SMTT(60)
<1>6. Len(x) = hi - lo /\ \A j \in 1..Len(x) : x[j] = xs[lo + j] /\ lo + j \in 1..Len(xs)
  <2>1. Len(x) = hi - lo /\ hi - (lo + 1) + 1 = hi - lo
    BY <1>1, <1>5
  <2>2. ASSUME NEW j \in 1..(hi - lo)
        PROVE  x[j] = xs[lo + j] /\ lo + j \in 1..Len(xs)
    <3>1. (lo + 1) + j - 1 = lo + j /\ lo + j \in 1..Len(xs)
      BY <1>1
    <3>2. x[j] = xs[(lo + 1) + j - 1]
      BY <1>5, <2>1
    <3>3. QED
      BY <3>1, <3>2
  <2>3. QED
    BY <2>1, <2>2
<1>7. /\ Len(p \o xs) = Len(p) + Len(xs)
      /\ \A j \in 1..Len(xs) : (p \o xs)[Len(p) + j] = xs[j]
  BY SamplesJoin
<1>8. \A j \in 1..Len(x) : x[j] = (p \o xs)[(Len(p) + lo) + j]
  <2>1. ASSUME NEW j \in 1..Len(x)
        PROVE  x[j] = (p \o xs)[(Len(p) + lo) + j]
    <3>1. x[j] = xs[lo + j] /\ lo + j \in 1..Len(xs)
      BY <1>6
    <3>2. (p \o xs)[Len(p) + (lo + j)] = xs[lo + j]
      BY <1>7, <3>1
    <3>3. Len(p) + (lo + j) = (Len(p) + lo) + j
      BY <1>1, <1>6
    <3>4. QED
      BY <3>1, <3>2, <3>3
  <2>2. QED
    BY <2>1
<1>9. QED
  <2>1. Len(x) <= OlaB /\ (Len(p) + lo) + Len(x) <= Len(p \o xs)
    BY <1>1, <1>6, <1>7
  <2>2. QED
    BY <1>5, <1>6, <1>8, <2>1 DEF x, hi

\* Through a block of the call.
LEMMA BlockHeeded ==
  ASSUME NEW h \in Responses, NEW p \in Seq(Int), NEW xs \in Seq(Int),
         NEW b \in 1..BlocksOf(Len(xs)), NEW was, Heeds(was, h, p, xs, UptoOf(Len(xs), b - 1))
  PROVE  Heeds(Pass(h, was, PieceOf(xs, b)), h, p, xs, UptoOf(Len(xs), b))
<1> DEFINE x  == PieceOf(xs, b)
           hi == UptoOf(Len(xs), b)
           a  == p \o xs
           st == Pass(h, was, x)
<1>1. PICK lo \in Nat : lo = (b - 1) * OlaB
  BY BlockCuts, LenProperties
<1>2. UptoOf(Len(xs), b - 1) = lo /\ hi \in 0..Len(xs) /\ Len(xs) \in Nat /\ Len(p) \in Nat
  BY <1>1, BlockCuts, LenProperties
<1>3. /\ x \in Seq(Int) /\ Len(x) = hi - lo /\ Len(x) <= OlaB
      /\ (Len(p) + lo) + Len(x) <= Len(a)
      /\ \A j \in 1..Len(x) : x[j] = a[(Len(p) + lo) + j]
  BY <1>1, PieceIs
<1>4. /\ was \in Emitted /\ Len(was.y) = lo /\ Owes(was.tail, h, a, Len(p) + lo)
      /\ \A j \in 1..lo : was.y[j] = Sounds(h, a, Len(p) + j)
  BY <1>2 DEF Heeds
<1>5. a \in Seq(Int) /\ Len(p) + lo \in Nat
  BY <1>1, <1>2, SamplesJoin
<1> HIDE DEF x, hi, a
<1>6. Extends(st, was, h, a, Len(p) + lo, Len(x))
  BY <1>3, <1>4, <1>5, PassExtends
<1> HIDE DEF st
<1>7. /\ st \in Emitted /\ Len(st.y) = lo + Len(x)
      /\ \A j \in 1..lo : st.y[j] = was.y[j]
      /\ \A j \in 1..Len(x) : st.y[lo + j] = Sounds(h, a, (Len(p) + lo) + j)
      /\ Owes(st.tail, h, a, (Len(p) + lo) + Len(x))
  BY <1>4, <1>6 DEF Extends
<1>8. lo + Len(x) = hi /\ (Len(p) + lo) + Len(x) = Len(p) + hi
  BY <1>1, <1>2, <1>3
<1>9. ASSUME NEW j \in 1..hi
      PROVE  st.y[j] = Sounds(h, a, Len(p) + j)
  <2>1. CASE j <= lo
    <3>1. j \in 1..lo
      BY <1>1, <1>2, <2>1
    <3>2. QED
      BY <1>4, <1>7, <3>1
  <2>2. CASE j > lo
    <3>1. /\ j - lo \in 1..Len(x) /\ lo + (j - lo) = j
          /\ (Len(p) + lo) + (j - lo) = Len(p) + j
      <4>1. Len(x) = hi - lo /\ lo \in Int /\ hi \in Int /\ Len(p) \in Int /\ j \in 1..hi
        BY <1>2, <1>3
      <4>2. QED
        BY <2>2, <4>1
    <3>2. st.y[lo + (j - lo)] = Sounds(h, a, (Len(p) + lo) + (j - lo))
      BY <1>7, <3>1
    <3>3. QED
      BY <3>1, <3>2
  <2>3. QED
    BY <1>1, <1>2, <2>1, <2>2
<1>10. Heeds(st, h, p, xs, hi)
  <2>1. Len(st.y) = hi /\ Owes(st.tail, h, a, Len(p) + hi)
    BY <1>7, <1>8
  <2>2. QED
    BY <1>7, <1>9, <2>1 DEF Heeds, a
<1>11. QED
  BY <1>10 DEF st, x, hi

\* ola_convolve: the whole call, through its blocks.
LEMMA ConvolveHeeds ==
  ASSUME NEW h \in Responses, NEW p \in Seq(Int), NEW xs \in Seq(Int), NEW tail \in Tails,
         Owes(tail, h, p \o xs, Len(p))
  PROVE  Heeds(Convolve(h, tail, xs), h, p, xs, Len(xs))
<1> DEFINE n     == Len(xs)
           L     == BlocksOf(n)
           start == [y |-> <<>>, tail |-> tail]
           step(was, b) == Pass(h, was, PieceOf(xs, b))
           next  == [z \in Emitted \X (1..L) |->
                        IF step(z[1], z[2]) \in Emitted THEN step(z[1], z[2]) ELSE z[1]]
           Fits(g) == g = [b \in 0..L |-> IF b = 0 THEN start ELSE step(g[b - 1], b)]
<1>1. n \in Nat /\ L \in Nat /\ Len(p) \in Nat /\ UptoOf(n, 0) = 0 /\ UptoOf(n, L) = n
  BY LenProperties, BlockCuts
<1>2. start \in Emitted /\ Heeds(start, h, p, xs, UptoOf(n, 0))
  <2>1. <<>> \in Seq(Int) /\ Len(<<>>) = 0 /\ 1..0 = {} /\ Len(p) + 0 = Len(p)
    BY <1>1, EmptySeq
  <2>2. start \in Emitted /\ start.y = <<>> /\ start.tail = tail
    BY <2>1 DEF Emitted
  <2> HIDE DEF start
  <2>3. QED
    BY <1>1, <2>1, <2>2 DEF Heeds
<1>3. next \in [Emitted \X (1..L) -> Emitted]
  <2>1. \A z \in Emitted \X (1..L) : z[1] \in Emitted
    OBVIOUS
  <2> HIDE DEF step
  <2>2. QED
    BY <2>1
<1>4. PICK f \in [0..L -> Emitted] :
         f[0] = start /\ \A i \in 1..L : f[i] = next[<<f[i - 1], i>>]
  <2> HIDE DEF next, start, L
  <2>1. \E f : Runs(f, Emitted, L, start, next)
    BY <1>1, <1>2, <1>3, Recursion
  <2>2. QED
    BY <2>1 DEF Runs
<1>5. ASSUME NEW i \in 1..L, Heeds(f[i - 1], h, p, xs, UptoOf(n, i - 1))
      PROVE  f[i] = step(f[i - 1], i) /\ Heeds(f[i], h, p, xs, UptoOf(n, i))
  <2>1. Heeds(step(f[i - 1], i), h, p, xs, UptoOf(n, i))
    BY <1>5, BlockHeeded
  <2>2. step(f[i - 1], i) \in Emitted
    BY <2>1 DEF Heeds
  <2>3. <<f[i - 1], i>> \in Emitted \X (1..L)
    <3>1. i - 1 \in 0..L
      BY <1>1
    <3>2. QED
      BY <3>1
  <2> HIDE DEF step
  <2>4. next[<<f[i - 1], i>>] = step(f[i - 1], i)
    BY <2>2, <2>3
  <2>5. f[i] = step(f[i - 1], i)
    BY <1>4, <2>4
  <2>6. QED
    BY <2>1, <2>5
<1> HIDE DEF next
<1>6. \A i \in 0..L : Heeds(f[i], h, p, xs, UptoOf(n, i))
  <2> DEFINE S == {i \in 0..L : Heeds(f[i], h, p, xs, UptoOf(n, i))}
  <2>1. 0 \in S
    <3>1. 0 \in 0..L
      BY <1>1
    <3>2. Heeds(f[0], h, p, xs, UptoOf(n, 0))
      BY <1>2, <1>4, Zenon
    <3>3. QED
      BY <3>1, <3>2
  <2>2. ASSUME NEW k \in 0..(L - 1), k \in S
        PROVE  k + 1 \in S
    <3>1. k + 1 \in 1..L /\ (k + 1) - 1 = k /\ k + 1 \in 0..L
      BY <1>1
    <3>2. Heeds(f[(k + 1) - 1], h, p, xs, UptoOf(n, (k + 1) - 1))
      BY <2>2, <3>1
    <3>3. QED
      BY <1>5, <3>1, <3>2
  <2>3. \A i \in 0..L : i \in S
    <3> HIDE DEF S, L
    <3>1. QED
      BY <1>1, <2>1, <2>2, Climb
  <2>4. QED
    BY <2>3
<1>7. \A i \in 1..L : f[i] = step(f[i - 1], i)
  <2>1. ASSUME NEW i \in 1..L
        PROVE  f[i] = step(f[i - 1], i)
    <3>1. i - 1 \in 0..L
      BY <1>1
    <3>2. Heeds(f[i - 1], h, p, xs, UptoOf(n, i - 1))
      BY <1>6, <3>1
    <3>3. QED
      BY <1>5, <3>2
  <2>2. QED
    BY <2>1
<1> HIDE DEF step
<1>8. Fits(f)
  <2>1. ASSUME NEW i \in 0..L
        PROVE  f[i] = IF i = 0 THEN start ELSE step(f[i - 1], i)
    <3>1. i = 0 \/ (i \in 1..L /\ i # 0)
      BY <1>1
    <3>2. QED
      BY <1>4, <1>7, <3>1, Zenon
  <2>2. QED
    BY <2>1
<1>9. ASSUME NEW g, Fits(g)
      PROVE  g = f
  <2> DEFINE Same == {i \in 0..L : g[i] = f[i]}
  <2>1. g = [b \in 0..L |-> IF b = 0 THEN start ELSE step(g[b - 1], b)]
    BY <1>9
  <2> HIDE DEF start
  <2>2. /\ DOMAIN g = 0..L
        /\ \A i \in 0..L : g[i] = IF i = 0 THEN start ELSE step(g[i - 1], i)
    BY <2>1, Zenon
  <2>3. g = [i \in 0..L |-> g[i]]
    BY <2>1, <2>2, Zenon
  <2>4. 0 \in 0..L /\ \A i \in 1..L : i \in 0..L /\ i # 0
    BY <1>1
  <2>5. g[0] = start /\ \A i \in 1..L : g[i] = step(g[i - 1], i)
    BY <2>2, <2>4, Zenon
  <2>6. 0 \in Same
    BY <1>4, <2>4, <2>5, Zenon
  <2>7. ASSUME NEW k \in 0..(L - 1), k \in Same
        PROVE  k + 1 \in Same
    <3>1. k + 1 \in 1..L /\ (k + 1) - 1 = k /\ k + 1 \in 0..L
      BY <1>1
    <3>2. g[k] = f[k]
      BY <2>7
    <3>3. g[k + 1] = step(g[k], k + 1) /\ f[k + 1] = step(f[k], k + 1)
      BY <1>7, <2>5, <3>1, Zenon
    <3>4. QED
      BY <3>1, <3>2, <3>3, Zenon
  <2>8. \A k \in 0..L : k \in Same
    <3> HIDE DEF Same, L
    <3>1. QED
      BY <1>1, <2>6, <2>7, Climb
  <2>9. QED
    BY <1>4, <2>3, <2>8
<1>10. Convolve(h, tail, xs) = (CHOOSE g : Fits(g))[L]
  BY DEF Convolve, BlocksOf, UptoOf, PieceOf, step
<1>11. (CHOOSE g : Fits(g)) = f
  <2> HIDE DEF Fits
  <2>1. QED
    BY <1>8, <1>9
<1>12. L \in 0..L
  BY <1>1
<1>13. QED
  <2>1. Heeds(f[L], h, p, xs, UptoOf(n, L))
    BY <1>6, <1>12
  <2> HIDE DEF Fits
  <2>2. QED
    BY <1>1, <1>10, <1>11, <2>1

-----------------------------------------------------------------------------
(* The channel's memory from call to call.                                 *)

\* What is forgotten of the past was no longer owed.
LEMMA PastSuffices ==
  ASSUME NEW h \in Responses, NEW z \in Seq(Int), Len(z) >= OlaB, NEW t \in Tails,
         Owes(t, h, z, Len(z)), NEW xs \in Seq(Int)
  PROVE  /\ LastOf(z) \in Seq(Int) /\ Len(LastOf(z)) = OlaB
         /\ Owes(t, h, LastOf(z) \o xs, OlaB)
<1> DEFINE p  == LastOf(z)
           n  == Len(z)
           lo == n - OlaB
           a  == p \o xs
<1>1. /\ n \in Nat /\ OlaB \in Nat /\ lo \in Nat /\ OlaB > 0 /\ OlaN \in Nat
      /\ Points = 0..(OlaN - 1) /\ Len(h) \in 1..OlaB
  BY ResponseFacts, LenProperties DEF Responses
<1>2. p \in Seq(Int) /\ Len(p) = OlaB /\ \A j \in 1..OlaB : p[j] = z[lo + j] /\ lo + j \in 1..n
  <2>1. p = SubSeq(z, lo + 1, n) /\ lo + 1 \in Int /\ n \in Int
    BY <1>1 DEF LastOf
  <2>2. \A i \in (lo + 1)..n : z[i] \in Int
    <3>1. \A i \in (lo + 1)..n : i \in 1..Len(z)
      BY <1>1
    <3>2. QED
      BY <3>1, ElementOfSeq
  <2> HIDE DEF p, n, lo
  <2>3. /\ p \in Seq(Int) /\ Len(p) = (IF lo + 1 <= n THEN n - (lo + 1) + 1 ELSE 0)
        /\ \A i \in 1..(n - (lo + 1) + 1) : p[i] = z[(lo + 1) + i - 1]
    BY <2>1, <2>2, SubSeqProperties
  <2>4. n - (lo + 1) + 1 = OlaB /\ lo + 1 <= n
    BY <1>1 DEF lo
  <2>5. Len(p) = OlaB
    BY <2>3, <2>4
  <2>6. ASSUME NEW j \in 1..OlaB
        PROVE  p[j] = z[lo + j] /\ lo + j \in 1..n
    <3>1. (lo + 1) + j - 1 = lo + j /\ lo + j \in 1..n
      BY <1>1 DEF lo
    <3>2. p[j] = z[(lo + 1) + j - 1]
      BY <2>3, <2>4
    <3>3. QED
      BY <3>1, <3>2
  <2>7. QED
    BY <2>3, <2>5, <2>6
<1> HIDE DEF p
<1>3. /\ a \in Seq(Int) /\ Len(a) = OlaB + Len(xs) /\ Len(xs) \in Nat
      /\ \A j \in 1..OlaB : a[j] = p[j]
  BY <1>2, SamplesJoin, LenProperties
<1> HIDE DEF a
<1>4. ASSUME NEW i \in Points
      PROVE  Owed(h, z, n, n + i + 1) = Owed(h, a, OlaB, OlaB + i + 1)
  <2>1. ASSUME NEW k \in 1..Len(h)
        PROVE  Cut(z, n, (n + i + 1) - k + 1) = Cut(a, OlaB, (OlaB + i + 1) - k + 1)
    <3> DEFINE d == i + 2 - k
    <3>1. /\ (n + i + 1) - k + 1 = n + d /\ (OlaB + i + 1) - k + 1 = OlaB + d
          /\ d \in Int /\ d >= 2 - OlaB
      BY <1>1
    <3> HIDE DEF d, n, lo
    <3>2. CASE d > 0
      <4>1. ~(n + d <= n) /\ ~(OlaB + d <= OlaB)
        BY <1>1, <3>1, <3>2
      <4>2. QED
        BY <3>1, <4>1 DEF Cut
    <3>3. CASE d <= 0
      <4>1. /\ n + d <= n /\ OlaB + d <= OlaB /\ OlaB + d \in 1..OlaB
            /\ OlaB + d \in 1..Len(a) /\ lo + (OlaB + d) = n + d
        BY <1>1, <1>3, <3>1, <3>3 DEF lo
      <4>2. p[OlaB + d] = z[n + d] /\ n + d \in 1..n
        BY <1>2, <4>1
      <4>3. a[OlaB + d] = z[n + d]
        BY <1>3, <4>1, <4>2
      <4>4. At(a, OlaB + d) = a[OlaB + d] /\ At(z, n + d) = z[n + d]
        BY <4>1, <4>2 DEF At, n
      <4>5. QED
        BY <3>1, <4>1, <4>3, <4>4 DEF Cut
    <3>4. QED
      BY <3>1, <3>2, <3>3
  <2>2. Under(h, z, n, n + i + 1) = Under(h, a, OlaB, OlaB + i + 1)
    BY <2>1 DEF Under
  <2>3. QED
    BY <2>2 DEF Owed
<1>5. Owes(t, h, a, OlaB)
  <2>1. \A i \in Points : t[i] = Owed(h, z, n, n + i + 1)
    BY DEF Owes
  <2>2. QED
    BY <1>4, <2>1 DEF Owes
<1>6. QED
  BY <1>2, <1>5 DEF p, a

\* The definition, after what has gone in before.
LEMMA HeardIs ==
  ASSUME NEW h \in Responses, NEW p \in Seq(Int), Len(p) = OlaB, NEW xs \in Seq(Int)
  PROVE  /\ Heard(h, p, xs) \in Seq(Int) /\ Len(Heard(h, p, xs)) = Len(xs)
         /\ \A j \in 1..Len(xs) : Heard(h, p, xs)[j] = Sounds(h, p \o xs, OlaB + j)
<1> DEFINE a == p \o xs
           n == Len(a)
           f == [i \in 1..n |-> Sounds(h, a, i)]
           y == Heard(h, p, xs)
<1>1. a \in Seq(Int) /\ n = OlaB + Len(xs) /\ Len(xs) \in Nat /\ OlaB \in Nat
  BY ResponseFacts, SamplesJoin, LenProperties
<1>2. Direct(h, a) = <<>> \o f
  BY DEF Direct, Sounds
<1> HIDE DEF a
<1>3. f \in [1..n -> Int] /\ \A i \in 1..n : f[i] = Sounds(h, a, i)
  <2>1. \A i \in 1..n : i \in Int
    BY <1>1
  <2>2. \A i \in 1..n : Sounds(h, a, i) \in Int
    BY <1>1, <2>1, UnderTyped
  <2>3. QED
    BY <2>2
<1> HIDE DEF f
<1>4. f \in Seq(Int) /\ Len(f) = n /\ Direct(h, a) = f
  <2>1. n \in Nat
    BY <1>1
  <2>2. QED
    BY <1>2, <1>3, <2>1, SamplesAre
<1>5. y = SubSeq(f, OlaB + 1, n)
  BY <1>4 DEF Heard, a
<1>6. \A i \in (OlaB + 1)..n : f[i] \in Int
  <2>1. \A i \in (OlaB + 1)..n : i \in 1..n
    BY <1>1
  <2>2. QED
    BY <1>3, <2>1
<1> HIDE DEF y, n
<1>7. OlaB + 1 \in Int /\ n \in Int
  BY <1>1
<1>8. /\ y \in Seq(Int) /\ Len(y) = (IF OlaB + 1 <= n THEN n - (OlaB + 1) + 1 ELSE 0)
      /\ \A i \in 1..(n - (OlaB + 1) + 1) : y[i] = f[(OlaB + 1) + i - 1]
  BY <1>5, <1>6, <1>7, SubSeqProperties
<1>9. n - (OlaB + 1) + 1 = Len(xs) /\ (OlaB + 1 <= n \/ Len(xs) = 0)
  BY <1>1
<1>10. Len(y) = Len(xs)
  BY <1>8, <1>9
<1>11. ASSUME NEW j \in 1..Len(xs)
       PROVE  y[j] = Sounds(h, a, OlaB + j)
  <2>1. (OlaB + 1) + j - 1 = OlaB + j /\ OlaB + j \in 1..n
    BY <1>1
  <2>2. y[j] = f[(OlaB + 1) + j - 1]
    BY <1>8, <1>9
  <2>3. QED
    BY <1>3, <2>1, <2>2
<1>12. QED
  BY <1>8, <1>10, <1>11 DEF y, a

\* A call gives out what is to be heard, and leaves what is owed.
Answers(c, h, p, xs) ==
    /\ c.y = Heard(h, p, xs) /\ c.y \in Seq(Int) /\ Len(c.y) = Len(xs)
    /\ c.tail \in Tails /\ Owes(c.tail, h, p \o xs, Len(p \o xs))
    /\ p \in Seq(Int) /\ Len(p) = OlaB

LEMMA CallAnswers ==
  ASSUME NEW h \in Responses, NEW z \in Seq(Int), Len(z) >= OlaB, NEW t \in Tails,
         Owes(t, h, z, Len(z)), NEW xs \in Seq(Int)
  PROVE  Answers(Convolve(h, t, xs), h, LastOf(z), xs)
<1> DEFINE p == LastOf(z)
           c == Convolve(h, t, xs)
           y == Heard(h, p, xs)
<1>1. p \in Seq(Int) /\ Len(p) = OlaB /\ Owes(t, h, p \o xs, Len(p))
  BY PastSuffices
<1> HIDE DEF p
<1>2. Heeds(c, h, p, xs, Len(xs))
  BY <1>1, ConvolveHeeds
<1> HIDE DEF c
<1>3. /\ c.y \in Seq(Int) /\ c.tail \in Tails /\ Len(c.y) = Len(xs)
      /\ \A j \in 1..Len(xs) : c.y[j] = Sounds(h, p \o xs, OlaB + j)
      /\ Owes(c.tail, h, p \o xs, Len(p) + Len(xs))
  BY <1>1, <1>2 DEF Heeds, Emitted
<1>4. /\ y \in Seq(Int) /\ Len(y) = Len(xs)
      /\ \A j \in 1..Len(xs) : y[j] = Sounds(h, p \o xs, OlaB + j)
  BY <1>1, HeardIs
<1> HIDE DEF y
<1>5. c.y = y
  <2> DEFINE u == c.y
  <2>1. /\ u \in Seq(Int) /\ Len(u) = Len(y)
        /\ \A j \in 1..Len(u) : u[j] = y[j]
    BY <1>3, <1>4
  <2> HIDE DEF u
  <2>2. u = y
    BY <1>4, <2>1, SeqEqual
  <2>3. QED
    BY <2>2 DEF u
<1>6. Len(p \o xs) = Len(p) + Len(xs)
  BY <1>1, SamplesJoin
<1>7. QED
  BY <1>1, <1>3, <1>5, <1>6 DEF Answers, p, c, y

\* A tail is the memory of the samples up to now.
Remembers(t, h, p, xs) ==
    /\ t \in Tails /\ p \in Seq(Int) /\ Len(p) = OlaB /\ xs \in Seq(Int)
    /\ Owes(t, h, p \o xs, Len(p \o xs))

ChannelInv ==
    /\ Remembers(tailH, H, pastH, pushedH) /\ Remembers(tailHx, Hx, pastHx, pushedHx)
    /\ rxBuf.of \in {"none", "own", "both", "pulse"}
    /\ OutputIsConvolution

\* At rest.
LEMMA RestRemembers ==
  ASSUME NEW h \in Responses, NEW p \in Seq(Int), Len(p) = OlaB, \A i \in 1..OlaB : p[i] = 0
  PROVE  Remembers(Silent, h, p, <<>>)
<1> DEFINE a == p \o <<>>
           n == Len(a)
<1>1. <<>> \in Seq(Int) /\ a = p
  BY EmptySeq, ConcatEmptySeq
<1> HIDE DEF a
<1>2. a \in Seq(Int) /\ n \in Nat /\ n = OlaB /\ h \in Seq(Int) /\ Len(h) \in Nat
  BY <1>1, LenProperties DEF Responses
<1>3. Silent \in Tails
  BY DEF Silent, Tails
<1>4. ASSUME NEW i \in Points
      PROVE  Silent[i] = Owed(h, a, n, n + i + 1)
  <2>1. i \in Int
    BY ResponseFacts
  <2>2. \A k \in 1..Len(h) : Cut(a, n, (n + i + 1) - k + 1) = 0
    BY <1>1, <1>2 DEF Cut, At
  <2>3. \A k \in 1..Len(h) : Under(h, a, n, n + i + 1)[k] = 0
    BY <2>2 DEF Under
  <2>4. n + i + 1 \in Int
    BY <1>2, <2>1
  <2>5. Under(h, a, n, n + i + 1) \in [1..Len(h) -> Int]
    BY <1>2, <2>4, UnderTyped
  <2>6. Owed(h, a, n, n + i + 1) = 0
    BY <1>2, <2>3, <2>5, WeightedNothing DEF Owed
  <2>7. QED
    BY <2>6 DEF Silent
<1>5. Owes(Silent, h, a, n)
  BY <1>4 DEF Owes
<1>6. QED
  BY <1>1, <1>3, <1>5 DEF Remembers, a

LEMMA ResponsesFit == H \in Responses /\ Hx \in Responses
  BY ResponseFacts DEF Responses

LEMMA ChannelStart == ChannelInit => ChannelInv
<1> SUFFICES ASSUME ChannelInit PROVE ChannelInv
  OBVIOUS
<1> DEFINE f == [i \in 1..OlaB |-> 0]
<1>1. OlaB \in Nat
  BY ResponseFacts
<1>2. f \in [1..OlaB -> Int] /\ \A i \in 1..OlaB : f[i] = 0
  OBVIOUS
<1>3. pastH = <<>> \o f /\ pastHx = pastH
  BY DEF ChannelInit
<1> HIDE DEF f
<1>4. f \in Seq(Int) /\ Len(f) = OlaB /\ <<>> \o f = f
  BY <1>1, <1>2, SamplesAre
<1>5. Remembers(Silent, H, f, <<>>) /\ Remembers(Silent, Hx, f, <<>>)
  BY <1>2, <1>4, RestRemembers, ResponsesFit
<1>6. /\ tailH = Silent /\ tailHx = Silent /\ pushedH = <<>> /\ pushedHx = <<>>
      /\ rxBuf = [of |-> "none", y |-> <<>>] /\ pastH = f /\ pastHx = f
  BY <1>3, <1>4 DEF ChannelInit
<1>7. rxBuf.of = "none"
  BY <1>6
<1>8. QED
  BY <1>5, <1>6, <1>7 DEF ChannelInv, OutputIsConvolution

\* What a call does to one of the two memories.
LEMMA CallRemembers ==
  ASSUME NEW h \in Responses, NEW t, NEW p, NEW q, Remembers(t, h, p, q), NEW xs \in Seq(Int)
  PROVE  LET c == Convolve(h, t, xs)
         IN  /\ c.y = Heard(h, LastOf(p \o q), xs)
             /\ Remembers(c.tail, h, LastOf(p \o q), xs)
<1> DEFINE z == p \o q
<1>1. /\ t \in Tails /\ p \in Seq(Int) /\ Len(p) = OlaB /\ q \in Seq(Int)
      /\ Owes(t, h, z, Len(z)) /\ OlaB \in Nat /\ Len(q) \in Nat
  BY ResponseFacts, LenProperties DEF Remembers
<1>2. z \in Seq(Int) /\ Len(z) = OlaB + Len(q)
  BY <1>1, SamplesJoin
<1>3. Len(z) >= OlaB
  BY <1>1, <1>2
<1> HIDE DEF z
<1>4. Answers(Convolve(h, t, xs), h, LastOf(z), xs)
  BY <1>1, <1>2, <1>3, CallAnswers
<1>5. QED
  BY <1>4 DEF Answers, Remembers, z

LEMMA ApplyKept ==
  ASSUME ChannelInv, NEW xs \in Inputs, Apply(xs)
  PROVE  ChannelInv'
<1> DEFINE c == Convolve(H, tailH, xs)
           p == LastOf(pastH \o pushedH)
<1>1. xs \in Seq(Int)
  BY ResponseFacts
<1>2. c.y = Heard(H, p, xs) /\ Remembers(c.tail, H, p, xs)
  BY <1>1, CallRemembers, ResponsesFit DEF ChannelInv
<1>3. /\ rxBuf' = [of |-> "own", y |-> c.y] /\ tailH' = c.tail /\ pastH' = p /\ pushedH' = xs
      /\ tailHx' = tailHx /\ pastHx' = pastHx /\ pushedHx' = pushedHx
  BY DEF Apply
<1> HIDE DEF c, p
<1>4. rxBuf'.of = "own" /\ rxBuf'.y = c.y
  BY <1>3
<1>5. Remembers(tailH, H, pastH, pushedH)' /\ Remembers(tailHx, Hx, pastHx, pushedHx)'
  BY <1>2, <1>3 DEF ChannelInv, Remembers, Owes, Owed, Tails
<1>6. OutputIsConvolution'
  BY <1>2, <1>3, <1>4 DEF OutputIsConvolution
<1>7. QED
  BY <1>4, <1>5, <1>6 DEF ChannelInv

LEMMA XtalkKept ==
  ASSUME ChannelInv, NEW a \in Inputs, NEW b \in Inputs, ApplyXtalk(a, b)
  PROVE  ChannelInv'
<1> DEFINE xs == Plus(a, b)
           c  == Convolve(Hx, tailHx, xs)
           p  == LastOf(pastHx \o pushedHx)
           f  == [i \in 1..Len(a) |-> a[i] + b[i]]
<1>1. xs \in Seq(Int)
  <2>1. a \in Seq(Int) /\ b \in Seq(Int) /\ Len(b) = Len(a) /\ Len(a) \in Nat
    BY ResponseFacts, LenProperties DEF ApplyXtalk
  <2>2. \A i \in 1..Len(a) : a[i] \in Int /\ b[i] \in Int
    BY <2>1, ElementOfSeq
  <2>3. f \in [1..Len(a) -> Int]
    BY <2>2
  <2>4. xs = <<>> \o f
    BY DEF Plus
  <2> HIDE DEF f, xs
  <2>5. QED
    BY <2>1, <2>3, <2>4, SamplesAre
<1>2. c.y = Heard(Hx, p, xs) /\ Remembers(c.tail, Hx, p, xs)
  <2> HIDE DEF xs
  <2>1. QED
    BY <1>1, CallRemembers, ResponsesFit DEF ChannelInv
<1>3. /\ rxBuf.of = "own" /\ rxBuf' = [of |-> "both", y |-> Plus(rxBuf.y, c.y)]
      /\ tailHx' = c.tail /\ pastHx' = p /\ pushedHx' = xs
      /\ tailH' = tailH /\ pastH' = pastH /\ pushedH' = pushedH
  BY DEF ApplyXtalk, Coupled
<1>4. rxBuf.y = Heard(H, pastH, pushedH)
  BY <1>3 DEF ChannelInv, OutputIsConvolution
<1> HIDE DEF c, p, xs
<1>5. rxBuf'.of = "both" /\ rxBuf'.y = Plus(Heard(H, pastH, pushedH), Heard(Hx, p, xs))
  BY <1>2, <1>3, <1>4
<1>6. Remembers(tailH, H, pastH, pushedH)' /\ Remembers(tailHx, Hx, pastHx, pushedHx)'
  BY <1>2, <1>3 DEF ChannelInv, Remembers, Owes, Owed, Tails
<1>7. OutputIsConvolution'
  BY <1>3, <1>5 DEF OutputIsConvolution
<1>8. QED
  BY <1>5, <1>6, <1>7 DEF ChannelInv

LEMMA ChannelAlways == ChannelSpec => []ChannelInv
<1>1. ChannelInv /\ [ChannelNext]_chVars => ChannelInv'
  <2> SUFFICES ASSUME ChannelInv, [ChannelNext]_chVars PROVE ChannelInv'
    OBVIOUS
  <2>1. ASSUME NEW xs \in Inputs, Apply(xs) PROVE ChannelInv'
    BY <2>1, ApplyKept
  <2>2. ASSUME NEW xs \in Inputs, PulseResponse(xs) PROVE ChannelInv'
    <3>1. rxBuf'.of = "pulse"
      BY <2>2 DEF PulseResponse
    <3>2. Remembers(tailH, H, pastH, pushedH)' /\ Remembers(tailHx, Hx, pastHx, pushedHx)'
      BY <2>2 DEF PulseResponse, ChannelInv, Remembers, Owes, Owed, Tails
    <3>3. OutputIsConvolution'
      BY <3>1 DEF OutputIsConvolution
    <3>4. QED
      BY <3>1, <3>2, <3>3 DEF ChannelInv
  <2>3. ASSUME NEW a \in Inputs, NEW b \in Inputs, ApplyXtalk(a, b) PROVE ChannelInv'
    BY <2>3, XtalkKept
  <2>4. CASE UNCHANGED chVars
    <3>1. Remembers(tailH, H, pastH, pushedH)' /\ Remembers(tailHx, Hx, pastHx, pushedHx)'
      BY <2>4 DEF chVars, ChannelInv, Remembers, Owes, Owed, Tails
    <3>2. rxBuf' = rxBuf /\ OutputIsConvolution'
      BY <2>4 DEF chVars, ChannelInv, OutputIsConvolution
    <3>3. QED
      BY <3>1, <3>2 DEF ChannelInv
  <2>5. QED
    BY <2>1, <2>2, <2>3, <2>4 DEF ChannelNext
<1>2. QED
  BY ChannelStart, <1>1, PTL DEF ChannelSpec

\* The two tails stay tails and the history keeps a block of the past.
THEOREM ChannelStaysTyped == ChannelSpec => []ChannelTypeOK
<1>1. ChannelInv => ChannelTypeOK
  BY DEF ChannelInv, Remembers, Tails, ChannelTypeOK
<1>2. QED
  BY ChannelAlways, <1>1, PTL

\* What comes out of every call is the convolution of all that went in, for
\* every block size, every two responses that fit it and every way to cut the
\* waveforms into calls; and the neighbours' sum likewise (ola_convolve).
THEOREM TailIsMemory == ChannelSpec => []OutputIsConvolution
<1>1. ChannelInv => OutputIsConvolution
  BY DEF ChannelInv
<1>2. QED
  BY ChannelAlways, <1>1, PTL
=============================================================================
