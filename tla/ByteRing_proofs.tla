-------------------------- MODULE ByteRing_proofs --------------------------
(***************************************************************************)
(* The ring pipeline for every ring, header and page size and every stream *)
(* length: nothing is overwritten before it is read, pages come out whole  *)
(* and in order, success means all of them, and the ring implements a      *)
(* bounded queue.                                                          *)
(***************************************************************************)
EXTENDS ByteRing, TLAPS

-----------------------------------------------------------------------------
(* Positions in the ring. *)

\* Only a multiple of c by zero is nearer to zero than c.
LEMMA SmallMultiple ==
    ASSUME NEW c \in Nat \ {0}, NEW x \in Int, c * x < c, -c < c * x
    PROVE  x = 0
<1>1. CASE x >= 1
  <2>1. c * x >= c BY <1>1
  <2>2. QED BY <2>1
<1>2. CASE x <= -1
  <2>1. c * x <= -c BY <1>2
  <2>2. QED BY <2>1
<1>3. QED BY <1>1, <1>2

\* Quotient and remainder are what they should be, and nothing else is.
LEMMA Division ==
    ASSUME NEW c \in Nat \ {0}, NEW a \in Nat
    PROVE  /\ a % c \in 0..(c - 1) /\ a \div c \in Nat
           /\ a = c * (a \div c) + (a % c)
  OBVIOUS

LEMMA DivisionUnique ==
    ASSUME NEW c \in Nat \ {0}, NEW a \in Nat,
           NEW q \in Int, NEW m \in 0..(c - 1), a = c * q + m
    PROVE  a % c = m /\ a \div c = q
<1> DEFINE p == a \div c
           k == a % c
<1>1. k \in 0..(c - 1) /\ p \in Nat /\ a = c * p + k BY Division, Zenon
<1> HIDE DEF p, k
<1>2. c * (p - q) = c * p - c * q BY <1>1
<1>3. c * p \in Int /\ c * q \in Int BY <1>1
<1>4. c * (p - q) = m - k BY <1>1, <1>2, <1>3
<1>5. p - q = 0
  <2>1. m - k < c /\ -c < m - k BY <1>1
  <2>2. QED BY <1>1, <1>4, <2>1, SmallMultiple
<1>6. p = q BY <1>1, <1>5
<1>7. k = m BY <1>1, <1>3, <1>6
<1>8. QED BY <1>6, <1>7 DEF p, k

\* The place of a later byte, less than once around.
LEMMA Ahead ==
    ASSUME NEW c \in Nat \ {0}, NEW k \in Nat, NEW a \in 0..(c - 1)
    PROVE  (k + a) % c = IF (k % c) + a < c THEN (k % c) + a ELSE (k % c) + a - c
<1> DEFINE p == k \div c
           m == k % c
<1>1. m \in 0..(c - 1) /\ p \in Nat /\ k = c * p + m BY Division, Zenon
<1> HIDE DEF p, m
<1> DEFINE s == k + a
           n == m + a
           z == m + a - c
<1>2. CASE m + a < c
  <2>1. c * p \in Int BY <1>1
  <2>2. s \in Nat /\ p \in Int /\ n \in 0..(c - 1) /\ s = c * p + n
    BY <1>1, <1>2, <2>1
  <2> HIDE DEF s, n
  <2>3. s % c = n BY <2>2, DivisionUnique, Zenon
  <2>4. QED BY <1>2, <2>3 DEF m, s, n
<1>3. CASE ~(m + a < c)
  <2>1. c * (p + 1) = c * p + c BY <1>1
  <2>2. s \in Nat /\ p + 1 \in Int /\ z \in 0..(c - 1) /\ s = c * (p + 1) + z
    BY <1>1, <1>3, <2>1
  <2> HIDE DEF s, z
  <2>3. s % c = z BY <2>2, DivisionUnique, Zenon
  <2>4. QED BY <1>3, <2>3 DEF m, s, z
<1>4. QED BY <1>2, <1>3

LEMMA LeastType ==
    ASSUME NEW a \in Int, NEW b \in Int
    PROVE  Least(a, b) \in {a, b} /\ Least(a, b) <= a /\ Least(a, b) <= b
  BY DEF Least

\* A turn of read() yields the bytes that follow r.
LEMMA ReadAtIs ==
    ASSUME RingAssumption, r \in Nat, w \in Nat, RingHolds,
           NEW n \in Nat, n <= w - r
    PROVE  ReadAt(n) = [j \in 1..n |-> r + j - 1]
<1> DEFINE idx == r % Cap
           first == Least(n, Cap - idx)
<1>1. Cap \in Nat \ {0} BY DEF RingAssumption
<1>2. idx \in 0..(Cap - 1) BY <1>1, Division
<1>3. n <= Cap BY <1>1 DEF RingHolds
<1>4. first \in {n, Cap - idx} /\ first <= n /\ first <= Cap - idx
  BY <1>1, <1>2, LeastType
<1>5. ASSUME NEW j \in 1..n
      PROVE  (IF j <= first THEN buf[idx + j - 1] ELSE buf[j - first - 1]) = r + j - 1
  <2>1. j - 1 \in 0..(Cap - 1) /\ r + (j - 1) \in r..(w - 1) BY <1>1, <1>3
  <2>2. buf[(r + (j - 1)) % Cap] = r + (j - 1) BY <2>1 DEF RingHolds
  <2>3. (r + (j - 1)) % Cap
          = IF idx + (j - 1) < Cap THEN idx + (j - 1) ELSE idx + (j - 1) - Cap
    BY <1>1, <2>1, Ahead
  <2>4. (r + (j - 1)) % Cap = IF j <= first THEN idx + j - 1 ELSE j - first - 1
    <3> HIDE DEF idx, first
    <3>1. CASE j <= first BY <3>1, <1>1, <1>2, <1>4, <2>1, <2>3
    <3>2. CASE ~(j <= first)
      <4>1. first = Cap - idx BY <3>2, <1>1, <1>2, <1>4
      <4>2. QED BY <3>2, <4>1, <1>1, <1>2, <2>1, <2>3
    <3>3. QED BY <3>1, <3>2
  <2>5. QED
    <3> HIDE DEF idx, first
    <3>1. r + (j - 1) = r + j - 1 OBVIOUS
    <3>2. CASE j <= first BY <2>2, <2>4, <3>1, <3>2
    <3>3. CASE ~(j <= first) BY <2>2, <2>4, <3>1, <3>3
    <3>4. QED BY <3>2, <3>3
<1>6. QED BY <1>5 DEF ReadAt

\* A turn of write() puts its bytes behind w and touches none between r and w.
LEMMA WriteAtIs ==
    ASSUME RingAssumption, r \in Nat, w \in Nat, r <= w, RingHolds,
           buf \in [0..(Cap - 1) -> Int],
           NEW n \in Nat \ {0}, n <= Cap - (w - r)
    PROVE  /\ WriteAt(n) \in [0..(Cap - 1) -> Int]
           /\ \A k \in r..(w + n - 1) : WriteAt(n)[k % Cap] = k
<1> DEFINE idx == w % Cap
           first == Least(n, Cap - idx)
           put(i) == IF i \in idx..(idx + first - 1) THEN w + (i - idx)
                     ELSE IF i < n - first THEN w + first + i ELSE buf[i]
<1>1. Cap \in Nat \ {0} BY DEF RingAssumption
<1>2. idx \in 0..(Cap - 1) BY <1>1, Division
<1>3. n <= Cap BY <1>1
<1>4. first \in {n, Cap - idx} /\ first <= n /\ first <= Cap - idx /\ first \in Nat
  BY <1>1, <1>2, LeastType
<1>5. WriteAt(n) = [i \in 0..(Cap - 1) |-> put(i)] BY DEF WriteAt
<1>6. WriteAt(n) \in [0..(Cap - 1) -> Int]
  <2> HIDE DEF idx, first
  <2>1. \A i \in 0..(Cap - 1) : put(i) \in Int BY <1>1, <1>2, <1>4
  <2>2. QED BY <1>5, <2>1
<1>7. ASSUME NEW k \in r..(w + n - 1) PROVE put(k % Cap) = k
  <2>1. k \in Nat /\ k % Cap \in 0..(Cap - 1) BY <1>1, Division
  <2>2. CASE k >= w
    <3> DEFINE a == k - w
    <3>1. a \in 0..(n - 1) /\ a \in 0..(Cap - 1) /\ w + a = k BY <2>2, <1>3
    <3> HIDE DEF a
    <3>ahead. (w + a) % Cap = IF idx + a < Cap THEN idx + a ELSE idx + a - Cap
      BY <1>1, <3>1, Ahead, Zenon
    <3>2. k % Cap = IF idx + a < Cap THEN idx + a ELSE idx + a - Cap
      BY <3>1, <3>ahead, Zenon
    <3> HIDE DEF idx, first
    <3>3. CASE idx + a < Cap
      <4>1. k % Cap = idx + a BY <3>2, <3>3
      <4>2. idx + a \in idx..(idx + first - 1)
        BY <1>1, <1>2, <1>4, <3>1, <3>3
      <4>3. put(k % Cap) = w + ((k % Cap) - idx) BY <4>1, <4>2
      <4>4. w + ((idx + a) - idx) = k BY <1>2, <3>1
      <4>5. QED BY <4>1, <4>3, <4>4, Zenon
    <3>4. CASE ~(idx + a < Cap)
      <4>1. k % Cap = idx + a - Cap BY <3>2, <3>4
      <4>2. first = Cap - idx BY <1>1, <1>2, <1>4, <3>1, <3>4
      <4>3. k % Cap < n - first /\ k % Cap < idx
        BY <1>1, <1>2, <1>3, <3>1, <4>1, <4>2
      <4>4. put(k % Cap) = w + first + (k % Cap) BY <1>2, <1>4, <2>1, <4>3
      <4>5. w + first + (idx + a - Cap) = k BY <1>1, <1>2, <3>1, <4>2
      <4>6. QED BY <4>1, <4>4, <4>5, Zenon
    <3>5. QED BY <3>3, <3>4
  <2>3. CASE k < w
    <3> DEFINE b == w - k
               i == k % Cap
    <3>1. b \in 1..(Cap - n) /\ b \in 0..(Cap - 1) /\ k + b = w BY <2>3, <1>1
    <3> HIDE DEF b
    <3>ahead. (k + b) % Cap = IF i + b < Cap THEN i + b ELSE i + b - Cap
      BY <1>1, <2>1, <3>1, Ahead, Zenon
    <3>2. idx = IF i + b < Cap THEN i + b ELSE i + b - Cap
      BY <3>1, <3>ahead, Zenon
    <3>3. buf[i] = k BY <2>3 DEF RingHolds
    <3>4. i \in 0..(Cap - 1) BY <2>1
    <3> HIDE DEF idx, first, i
    <3>5. i \notin idx..(idx + first - 1) /\ ~(i < n - first)
      <4>1. CASE i + b < Cap
        BY <4>1, <1>1, <1>2, <1>4, <3>1, <3>2, <3>4
      <4>2. CASE ~(i + b < Cap)
        BY <4>2, <1>1, <1>2, <1>4, <3>1, <3>2, <3>4
      <4>3. QED BY <4>1, <4>2
    <3>6. put(i) = k BY <3>3, <3>5
    <3>7. QED BY <3>6 DEF i
  <2>4. QED BY <2>1, <2>2, <2>3
<1>8. ASSUME NEW k \in r..(w + n - 1) PROVE WriteAt(n)[k % Cap] = k
  <2>1. k % Cap \in 0..(Cap - 1) BY <1>1, Division
  <2> HIDE DEF put
  <2>2. QED BY <1>5, <1>7, <2>1
<1>9. QED BY <1>6, <1>8

-----------------------------------------------------------------------------
(* The inductive invariant. *)

\* What the writer's place says of the stream and of the flags.
WriterInv ==
    /\ wpc = "source" => block = 0
    /\ wpc = "write" => block > 0
    /\ w + block <= src.len
    /\ WriterAlive => ~eof /\ ~error
    /\ wpc = "ended" => eof /\ ~error /\ w = src.len
    /\ wpc = "raised" => eof /\ error

\* The read under way holds what follows the last page, up to r.
ReaderInv ==
    rpc \in Reads =>
        /\ r = PageSize * Len(pages) + Len(got)
        /\ \A j \in 1..Len(got) : got[j] = PageSize * Len(pages) + j - 1
        /\ rpc # "page" => pages = << >>
        /\ rpc # "header" => want = PageSize
        /\ ~quit

\* A reader that is through has left early, read all, or met the writer's error.
ThroughInv ==
    /\ rpc \in {"join", "joinfail"} /\ ~quit => ~WriterAlive
    /\ rpc \in {"join", "ok"} /\ ~quit => Len(pages) = src.len \div PageSize
    /\ rpc = "ok" => wpc # "raised"

IInv == /\ TypeOK /\ RingHolds /\ PagesInOrder
        /\ WriterInv /\ ReaderInv /\ ThroughInv

LEMMA InitIInv == Init => IInv
<1> SUFFICES ASSUME Init PROVE IInv
  OBVIOUS
<1> USE RingAssumption DEF Init, RingAssumption
<1>1. /\ HeaderSize \in Nat /\ PageSize \in Nat /\ Cap \in Nat \ {0} /\ MaxBlock \in Nat
      /\ src.len \in Nat
  BY Zenon
<1>2. TypeOK
  <2>1. buf \in [0..(Cap - 1) -> Int] BY <1>1
  <2>2. w \in 0..src.len /\ r \in 0..w /\ block \in 0..MaxBlock BY <1>1
  <2>3. got \in Seq(Int) /\ Len(got) <= want /\ pages \in Seq(Seq(Int)) BY <1>1
  <2>4. eof \in BOOLEAN /\ error \in BOOLEAN /\ quit \in BOOLEAN BY Zenon
  <2>5. QED BY <2>1, <2>2, <2>3, <2>4 DEF TypeOK, Reads
<1>3. RingHolds BY <1>1 DEF RingHolds
<1>4. PagesInOrder BY DEF PagesInOrder
<1>5. WriterInv BY <1>1 DEF WriterInv, WriterAlive
<1>6. ReaderInv BY <1>1 DEF ReaderInv
<1>7. ThroughInv BY DEF ThroughInv
<1>8. QED BY <1>2, <1>3, <1>4, <1>5, <1>6, <1>7 DEF IInv

\* The types an arithmetic step needs.
LEMMA Types ==
    ASSUME TypeOK
    PROVE  /\ Cap \in Nat \ {0} /\ PageSize \in Nat \ {0} /\ HeaderSize \in Nat \ {0}
           /\ HeaderSize < PageSize
           /\ src.len \in Nat /\ w \in Nat /\ r \in Nat /\ r <= w /\ w <= src.len
           /\ block \in Nat /\ want \in Nat \ {0} /\ got \in Seq(Int) /\ Len(got) \in Nat
           /\ pages \in Seq(Seq(Int)) /\ Len(pages) \in Nat
<1> USE RingAssumption DEF TypeOK, RingAssumption
<1>1. /\ Cap \in Nat \ {0} /\ PageSize \in Nat \ {0} /\ HeaderSize \in Nat \ {0}
      /\ HeaderSize < PageSize
  OBVIOUS
<1>2. src.len \in Nat OBVIOUS
<1>3. w \in Nat /\ r \in Nat /\ r <= w /\ w <= src.len BY <1>2
<1>4. block \in Nat /\ want \in Nat \ {0} BY <1>1
<1>5. got \in Seq(Int) /\ Len(got) \in Nat /\ pages \in Seq(Seq(Int)) /\ Len(pages) \in Nat
  OBVIOUS
<1>6. QED BY <1>1, <1>2, <1>3, <1>4, <1>5

-----------------------------------------------------------------------------
(* The writer's steps. *)

LEMMA NextBlockKeepsIInv == ASSUME IInv, NextBlock PROVE IInv'
<1> USE DEF NextBlock, ringVars, readerVars
<1>1. TypeOK' BY RingAssumption, Types DEF IInv, TypeOK, RingAssumption
<1>2. RingHolds' /\ PagesInOrder' /\ ReaderInv'
  BY DEF IInv, RingHolds, PagesInOrder, ReaderInv
<1>3. WriterInv' BY Types DEF IInv, WriterInv, WriterAlive
<1>4. ThroughInv' BY DEF IInv, ThroughInv, WriterAlive, Running, Outcomes
<1>5. QED BY <1>1, <1>2, <1>3, <1>4 DEF IInv

LEMMA WriteKeepsIInv == ASSUME IInv, Write PROVE IInv'
<1> USE DEF IInv
<1> DEFINE n == Least(block, Space)
<1>1. /\ Running /\ wpc = "write" /\ w - r < Cap
      /\ buf' = WriteAt(n) /\ w' = w + n /\ block' = block - n
      /\ wpc' = IF block = n THEN "source" ELSE "write"
      /\ UNCHANGED <<src, r, eof, error, readerVars>>
  BY DEF Write
<1>2. n \in Nat \ {0} /\ n <= block /\ n <= Cap - (w - r)
  <2>1. block \in Nat \ {0} /\ Space \in Nat \ {0} BY SMTT(30), <1>1, Types DEF WriterInv, Space
  <2>2. QED BY <2>1, LeastType DEF Space
<1> HIDE DEF n
<1>3. /\ buf' \in [0..(Cap - 1) -> Int]
      /\ \A k \in r..(w + n - 1) : buf'[k % Cap] = k
  BY <1>1, <1>2, Types, WriteAtIs, RingAssumption DEF TypeOK
<1>4. /\ w' \in 0..src.len /\ r \in 0..w' /\ block' \in 0..MaxBlock
  BY <1>1, <1>2, Types, RingAssumption DEF TypeOK, WriterInv, RingAssumption
<1>5. TypeOK' BY <1>1, <1>3, <1>4 DEF TypeOK, readerVars
<1>6. RingHolds'
  <2>1. r' = r /\ w' = w + n BY <1>1
  <2>2. w' - r' <= Cap BY <1>2, <2>1, Types
  <2>3. r'..(w' - 1) = r..(w + n - 1) BY <1>2, <2>1, Types
  <2>4. \A k \in r'..(w' - 1) : buf'[k % Cap] = k BY <1>3, <2>3, Zenon
  <2>5. QED BY <2>2, <2>4, Zenon DEF RingHolds
<1>7. PagesInOrder' /\ ReaderInv'
  BY <1>1 DEF PagesInOrder, ReaderInv, readerVars
<1>8. WriterInv'
  <2>1. /\ wpc' \in {"source", "write"} /\ ~eof' /\ ~error'
        /\ wpc' = IF block = n THEN "source" ELSE "write"
    BY <1>1 DEF WriterInv, WriterAlive
  <2>2. w + block <= src.len BY DEF WriterInv
  <2>3. w \in Nat /\ block \in Nat BY Types
  <2> HIDE DEF IInv
  <2>4. /\ w' + block' = w + block /\ src' = src
        /\ (block = n => block' = 0) /\ (block # n => block' > 0)
    BY <1>1, <1>2, <2>3
  <2>5. w' + block' <= src'.len BY <2>2, <2>4
  <2>6. QED BY <2>1, <2>4, <2>5 DEF WriterInv, WriterAlive
<1>9. ThroughInv'
  BY <1>1 DEF ThroughInv, WriterAlive, Running, Outcomes, readerVars
<1>10. QED BY <1>5, <1>6, <1>7, <1>8, <1>9

LEMMA CloseKeepsIInv == ASSUME IInv, Close \/ SourceFails PROVE IInv'
<1> USE DEF Close, SourceFails, readerVars, IInv
<1>1. TypeOK' BY DEF TypeOK
<1>2. RingHolds' /\ PagesInOrder' /\ ReaderInv'
  BY DEF RingHolds, PagesInOrder, ReaderInv
<1>3. WriterInv' BY Types DEF WriterInv, WriterAlive
<1>4. ThroughInv' BY DEF ThroughInv, WriterAlive, Running, Outcomes
<1>5. QED BY <1>1, <1>2, <1>3, <1>4

-----------------------------------------------------------------------------
(* The reader's steps. *)

LEMMA Concat ==
    ASSUME NEW s \in Seq(Int), NEW t \in Seq(Int)
    PROVE  /\ s \o t \in Seq(Int) /\ Len(s \o t) = Len(s) + Len(t)
           /\ \A j \in 1..Len(s) : (s \o t)[j] = s[j]
           /\ \A j \in (Len(s) + 1)..(Len(s) + Len(t)) : (s \o t)[j] = t[j - Len(s)]
  OBVIOUS

LEMMA ReadSomeKeepsIInv == ASSUME IInv, ReadSome PROVE IInv'
<1> USE DEF IInv
<1> DEFINE n == Take
           base == PageSize * Len(pages)
<1>1. /\ rpc \in Reads /\ Len(got) < want /\ w > r /\ ~error
      /\ got' = got \o ReadAt(n) /\ r' = r + n
      /\ UNCHANGED <<src, buf, w, eof, error, writerVars, want, rpc, quit, pages>>
  BY DEF ReadSome
<1>2. n \in Nat \ {0} /\ n <= want - Len(got) /\ n <= w - r
  <2>1. want - Len(got) \in Nat \ {0} /\ w - r \in Nat \ {0} BY SMTT(30), <1>1, Types
  <2>2. QED BY <2>1, LeastType DEF Take
<1>3. ReadAt(n) = [j \in 1..n |-> r + j - 1]
  BY <1>2, Types, ReadAtIs, RingAssumption
<1> HIDE DEF n
<1>4. ReadAt(n) \in Seq(Int) /\ Len(ReadAt(n)) = n BY <1>2, <1>3, Types
<1>5. got' \in Seq(Int) /\ Len(got') = Len(got) + n 
  <2>1. got' = got \o ReadAt(n) BY <1>1
  <2>2. got \in Seq(Int) BY Types
  <2>3. QED BY <1>4, <2>1, <2>2, Concat
<1>6. TypeOK'
  <2>1. r' \in 0..w' BY SMTT(30), <1>1, <1>2, Types
  <2>2. Len(got') <= want' BY <1>1, <1>2, <1>5, Types
  <2>3. QED BY <1>1, <1>5, <2>1, <2>2 DEF TypeOK, writerVars
<1>7. RingHolds'
  <2>1. \A k \in r'..(w' - 1) : k \in r..(w - 1) BY <1>1, <1>2, Types
  <2>2. \A k \in r..(w - 1) : buf[k % Cap] = k BY DEF RingHolds
  <2>3. \A k \in r'..(w' - 1) : buf'[k % Cap] = k BY <1>1, <2>1, <2>2, Zenon
  <2>4. w' - r' <= Cap BY SMTT(30), <1>1, <1>2, Types DEF RingHolds
  <2>5. QED BY <2>3, <2>4, Zenon DEF RingHolds
<1>8. PagesInOrder' /\ WriterInv' /\ ThroughInv'
  BY <1>1 DEF PagesInOrder, WriterInv, ThroughInv, WriterAlive, writerVars, Reads
<1>9. ReaderInv'
  <2>1. base \in Nat BY Types
  <2>2. r = base + Len(got) /\ \A j \in 1..Len(got) : got[j] = base + j - 1
    BY <1>1 DEF ReaderInv
  <2> HIDE DEF base
  <2>3. r' = base + Len(got') BY <1>1, <1>2, <1>5, <2>1, <2>2, Types
  <2>4. ASSUME NEW j \in 1..Len(got') PROVE got'[j] = base + j - 1
    <3>1. CASE j <= Len(got) BY <1>1, <1>4, <1>5, <2>2, <3>1, Types
    <3>2. CASE ~(j <= Len(got))
      <4>1. j - Len(got) \in 1..n BY <1>2, <1>5, <3>2, Types
      <4>2. got'[j] = ReadAt(n)[j - Len(got)] BY <1>1, <1>4, <1>5, <3>2, <4>1, Types
      <4>3. ReadAt(n)[j - Len(got)] = r + (j - Len(got)) - 1 BY <1>3, <4>1
      <4>4. QED BY <2>1, <2>2, <4>2, <4>3, Types
    <3>3. QED BY <3>1, <3>2
  <2>5. QED BY <1>1, <2>3, <2>4 DEF ReaderInv, base
<1>10. QED BY <1>6, <1>7, <1>8, <1>9

LEMMA ReadRaisesKeepsIInv == ASSUME IInv, ReadRaises PROVE IInv'
<1> USE DEF ReadRaises, IInv, ringVars, writerVars
<1>1. TypeOK' BY DEF TypeOK
<1>2. RingHolds' /\ PagesInOrder' /\ WriterInv'
  BY DEF RingHolds, PagesInOrder, WriterInv, WriterAlive
<1>3. ReaderInv' BY DEF ReaderInv, Reads
<1>4. ThroughInv' BY DEF ThroughInv, WriterInv, WriterAlive
<1>5. QED BY <1>1, <1>2, <1>3, <1>4

\* At the end of the stream the writer has closed it.
LEMMA EndMeansEnded ==
    ASSUME IInv, AtEnd
    PROVE  wpc = "ended" /\ r = src.len
  BY DEF IInv, TypeOK, WriterInv, WriterAlive, AtEnd

LEMMA HeaderReadKeepsIInv == ASSUME IInv, HeaderRead PROVE IInv'
<1> USE DEF HeaderRead, IInv, ringVars, writerVars
<1>1. TypeOK'
  <2>1. want' \in {HeaderSize, PageSize} /\ Len(got') <= want'
    BY Types DEF TypeOK, Short, Returned
  <2>2. rpc' \in Reads \union {"join", "joinfail"} /\ quit' \in BOOLEAN
    BY Zenon DEF TypeOK, Reads
  <2>3. QED BY <2>1, <2>2 DEF TypeOK
<1>2. RingHolds' /\ PagesInOrder' /\ WriterInv'
  BY DEF RingHolds, PagesInOrder, WriterInv, WriterAlive
<1>3. ReaderInv' BY DEF ReaderInv, Reads
<1>4. ThroughInv'
  <2>1. CASE Short
    <3>1. wpc = "ended" BY <2>1, EndMeansEnded, Types DEF Returned, Short
    <3>2. rpc' = "joinfail" /\ wpc' = wpc BY <2>1
    <3>3. QED BY <3>1, <3>2 DEF ThroughInv, WriterAlive
  <2>2. CASE ~Short
    <3>1. rpc' = "rest" \/ (rpc' = "joinfail" /\ quit') BY <2>2, Zenon
    <3>2. QED BY <3>1 DEF ThroughInv
  <2>3. QED BY <2>1, <2>2
<1>5. QED BY <1>1, <1>2, <1>3, <1>4

LEMMA PageReadKeepsIInv == ASSUME IInv, PageRead PROVE IInv'
<1> USE DEF IInv
<1>1. /\ rpc \in {"rest", "page"} /\ Len(got) = want /\ want = PageSize
      /\ UNCHANGED <<src, ringVars, writerVars>>
  BY Types DEF PageRead, Short, Returned, ReaderInv, Reads, TypeOK
<1>2. /\ r = PageSize * Len(pages) + PageSize
      /\ \A j \in 1..PageSize : got[j] = PageSize * Len(pages) + j - 1
  BY <1>1 DEF ReaderInv, Reads
<1>3. got = PageUnits(Len(pages))
  <2>1. got = [j \in 1..PageSize |-> got[j]] BY <1>1, Types
  <2>2. \A j \in 1..PageSize : got[j] = Len(pages) * PageSize + j - 1
    BY <1>2, Types
  <2>3. QED BY <2>1, <2>2, Zenon DEF PageUnits
<1>4. ASSUME pages' = Append(pages, got)
      PROVE  /\ pages' \in Seq(Seq(Int)) /\ Len(pages') = Len(pages) + 1
             /\ PagesInOrder'
  <2>1. pages' \in Seq(Seq(Int)) /\ Len(pages') = Len(pages) + 1
    BY <1>4, Types
  <2>2. ASSUME NEW q \in 1..Len(pages') PROVE pages'[q] = PageUnits(q - 1)
    <3>1. CASE q <= Len(pages) BY <1>4, <2>1, <3>1, Types DEF PagesInOrder
    <3>2. CASE ~(q <= Len(pages))
      <4>1. q = Len(pages) + 1 BY <2>1, <3>2, Types
      <4>2. pages'[q] = got BY <1>4, <4>1, Types
      <4>3. q - 1 = Len(pages) BY <4>1, Types
      <4>4. QED BY <1>3, <4>2, <4>3, Zenon
    <3>3. QED BY <3>1, <3>2
  <2>3. QED BY <2>1, <2>2 DEF PagesInOrder
<1>5. RingHolds' /\ WriterInv'
  BY <1>1 DEF RingHolds, WriterInv, WriterAlive, ringVars, writerVars
<1>6. CASE /\ pages' = Append(pages, got)
           /\ Then(PageSize, "page") /\ UNCHANGED quit
  <2>1. want' = PageSize /\ got' = << >> /\ rpc' = "page" /\ quit' = quit
    BY <1>6 DEF Then
  <2>2. TypeOK' BY <1>1, <1>4, <1>6, <2>1, Types DEF TypeOK, ringVars, writerVars, Reads
  <2>3. ReaderInv'
    <3>1. r' = PageSize * Len(pages') + Len(got')
      <4>1. PageSize * (Len(pages) + 1) = PageSize * Len(pages) + PageSize BY Types
      <4>2. r' = r /\ Len(pages') = Len(pages) + 1 /\ Len(got') = 0
        BY <1>1, <1>4, <1>6, <2>1 DEF ringVars
      <4>3. PageSize * Len(pages) \in Nat BY Types
      <4>4. QED BY <1>2, <4>1, <4>2, <4>3, Types
    <3>2. \A j \in 1..Len(got') : got'[j] = PageSize * Len(pages') + j - 1 BY <2>1
    <3>3. ~quit' BY <1>1, <2>1 DEF ReaderInv, Reads
    <3>4. QED BY <2>1, <3>1, <3>2, <3>3 DEF ReaderInv
  <2>4. ThroughInv' BY <2>1 DEF ThroughInv
  <2>5. QED BY <1>4, <1>5, <1>6, <2>2, <2>3, <2>4
<1>7. CASE /\ pages' = Append(pages, got)
           /\ rpc' = "join" /\ quit' = TRUE /\ UNCHANGED <<want, got>>
  <2>1. TypeOK' BY <1>1, <1>4, <1>7 DEF TypeOK, ringVars, writerVars
  <2>2. ReaderInv' /\ ThroughInv' BY <1>7 DEF ReaderInv, ThroughInv, Reads
  <2>3. QED BY <1>4, <1>5, <1>7, <2>1, <2>2
<1>8. CASE rpc' = "joinfail" /\ quit' = TRUE /\ UNCHANGED <<want, got, pages>>
  <2>1. TypeOK' BY <1>1, <1>8 DEF TypeOK, ringVars, writerVars
  <2>2. ReaderInv' /\ ThroughInv' /\ PagesInOrder'
    BY <1>8 DEF ReaderInv, ThroughInv, Reads, PagesInOrder
  <2>3. QED BY <1>5, <2>1, <2>2
<1>9. QED BY <1>6, <1>7, <1>8 DEF PageRead

LEMMA StreamReadKeepsIInv == ASSUME IInv, StreamRead PROVE IInv'
<1> USE DEF IInv
<1>1. /\ rpc \in {"rest", "page"} /\ AtEnd /\ Len(got) < want
      /\ rpc' = IF rpc = "rest" THEN "joinfail" ELSE "join"
      /\ UNCHANGED <<src, ringVars, writerVars, want, got, quit, pages>>
  BY Types DEF StreamRead, Short, Returned
<1>2. wpc = "ended" /\ r = src.len BY <1>1, EndMeansEnded
<1>3. TypeOK' BY <1>1 DEF TypeOK, ringVars, writerVars
<1>4. RingHolds' /\ PagesInOrder' /\ WriterInv'
  BY <1>1 DEF RingHolds, PagesInOrder, WriterInv, WriterAlive, ringVars, writerVars
<1>5. ReaderInv' BY <1>1 DEF ReaderInv, Reads
<1>6. Len(pages) = src.len \div PageSize
  <2>1. src.len = PageSize * Len(pages) + Len(got) /\ Len(got) \in 0..(PageSize - 1)
    BY <1>1, <1>2, Types DEF ReaderInv, Reads
  <2>2. QED BY SMTT(30), <2>1, Types, DivisionUnique
<1>7. ThroughInv' BY <1>1, <1>2, <1>6 DEF ThroughInv, WriterAlive, writerVars
<1>8. QED BY <1>3, <1>4, <1>5, <1>7

LEMMA JoinKeepsIInv == ASSUME IInv, Join \/ JoinTimesOut PROVE IInv'
<1> USE DEF IInv
<1>1. /\ rpc \in {"join", "joinfail"} /\ rpc' = Report
      /\ UNCHANGED <<src, ringVars, writerVars, want, got, quit, pages>>
  BY DEF Join, JoinTimesOut
<1>2. rpc' \in Outcomes BY <1>1 DEF Report, Outcomes
<1>3. TypeOK' BY <1>1, <1>2 DEF TypeOK, ringVars, writerVars
<1>4. RingHolds' /\ PagesInOrder' /\ WriterInv'
  BY <1>1 DEF RingHolds, PagesInOrder, WriterInv, WriterAlive, ringVars, writerVars
<1>5. ReaderInv' BY <1>2 DEF ReaderInv, Reads, Outcomes
<1>6. ThroughInv' BY <1>1 DEF ThroughInv, Report, writerVars
<1>7. QED BY <1>3, <1>4, <1>5, <1>6

LEMMA StepIInv == IInv /\ [Next]_vars => IInv'
<1> SUFFICES ASSUME IInv, [Next]_vars PROVE IInv'
  OBVIOUS
<1>1. CASE Writer
  BY <1>1, NextBlockKeepsIInv, WriteKeepsIInv, CloseKeepsIInv DEF Writer
<1>2. CASE Reader
  BY <1>2, ReadSomeKeepsIInv, ReadRaisesKeepsIInv, HeaderReadKeepsIInv,
     PageReadKeepsIInv, StreamReadKeepsIInv, JoinKeepsIInv DEF Reader
<1>3. CASE Ended \/ UNCHANGED vars
  <2>1. UNCHANGED vars BY <1>3 DEF Ended
  <2> USE <2>1 DEF vars, ringVars, writerVars, readerVars, IInv
  <2>2. TypeOK' /\ RingHolds' /\ PagesInOrder' BY DEF TypeOK, RingHolds, PagesInOrder
  <2>3. WriterInv' /\ ReaderInv' /\ ThroughInv'
    BY DEF WriterInv, ReaderInv, ThroughInv, WriterAlive
  <2>4. QED BY <2>2, <2>3
<1>4. QED BY <1>1, <1>2, <1>3 DEF Next

LEMMA Invariance == Spec => []IInv
  BY InitIInv, StepIInv, PTL DEF Spec

-----------------------------------------------------------------------------
\* TypeOK of ByteRing holds in every reachable state.
THEOREM TypeCorrect == Spec => []TypeOK
<1>1. IInv => TypeOK BY DEF IInv
<1>2. QED BY <1>1, Invariance, PTL

\* ByteRing.write never overwrites a byte that read has still to return, whatever
\* the ring's capacity and the sizes of blocks and pages.
THEOREM NothingOverwritten == Spec => []RingHolds
<1>1. IInv => RingHolds BY DEF IInv
<1>2. QED BY <1>1, Invariance, PTL

\* carve_sqlite_stream_from_ring carves the pages of the stream, whole and in
\* order.
THEOREM PagesAreInOrder == Spec => []PagesInOrder
<1>1. IInv => PagesInOrder BY DEF IInv
<1>2. QED BY <1>1, Invariance, PTL

\* _run_zip_carve_pipeline returns normally only when the writer did not fail and
\* every whole page was carved, or the sink had enough.
THEOREM SuccessMeansAll == Spec => []OkMeansAll
<1>1. IInv => OkMeansAll BY DEF IInv, OkMeansAll, ThroughInv
<1>2. QED BY <1>1, Invariance, PTL

\* The join waits for a writer that may be stuck only behind a reader that left
\* the stream before its end.
THEOREM WaitsOnlyIfQuit == Spec => []PatientOnlyIfQuit
<1>1. IInv => PatientOnlyIfQuit BY DEF IInv, PatientOnlyIfQuit, ThroughInv
<1>2. QED BY <1>1, Invariance, PTL

-----------------------------------------------------------------------------
(* The ring implements a bounded queue. *)

\* The bytes from x up to y.
Slice(x, y) == [j \in 1..(y - x) |-> x + j - 1]

LEMMA SliceType ==
    ASSUME NEW x \in Nat, NEW y \in Nat, x <= y
    PROVE  Slice(x, y) \in Seq(Int) /\ Len(Slice(x, y)) = y - x
  BY DEF Slice

LEMMA SameSeq ==
    ASSUME NEW s \in Seq(Int), NEW t \in Seq(Int), Len(s) = Len(t),
           \A j \in 1..Len(s) : s[j] = t[j]
    PROVE  s = t
  OBVIOUS

LEMMA SliceExtends ==
    ASSUME NEW x \in Nat, NEW y \in Nat, x <= y, NEW n \in Nat
    PROVE  Slice(x, y) \o [j \in 1..n |-> y + j - 1] = Slice(x, y + n)
<1> DEFINE s == Slice(x, y)
           t == [j \in 1..n |-> y + j - 1]
<1>1. s \in Seq(Int) /\ Len(s) = y - x BY SliceType
<1>2. t \in Seq(Int) /\ Len(t) = n OBVIOUS
<1>3. Slice(x, y + n) \in Seq(Int) /\ Len(Slice(x, y + n)) = (y - x) + n
  <2>1. y + n \in Nat /\ x <= y + n OBVIOUS
  <2>2. Slice(x, y + n) \in Seq(Int) /\ Len(Slice(x, y + n)) = (y + n) - x
    BY <2>1, SliceType, Zenon
  <2>3. QED BY <2>2
<1>4. s \o t \in Seq(Int) /\ Len(s \o t) = (y - x) + n BY <1>1, <1>2, Concat
<1>5. ASSUME NEW j \in 1..((y - x) + n) PROVE (s \o t)[j] = Slice(x, y + n)[j]
  <2>1. Slice(x, y + n)[j] = x + j - 1 BY DEF Slice
  <2>2. CASE j <= y - x
    <3>1. (s \o t)[j] = s[j] BY <1>1, <1>2, <2>2, Concat
    <3>2. s[j] = x + j - 1 BY <2>2 DEF Slice
    <3>3. QED BY <2>1, <3>1, <3>2
  <2>3. CASE ~(j <= y - x)
    <3>1. t[j - (y - x)] = y + (j - (y - x)) - 1 BY <2>3
    <3> HIDE DEF s, t
    <3>2. j \in (Len(s) + 1)..(Len(s) + Len(t)) BY <1>1, <1>2, <2>3
    <3>3. (s \o t)[j] = t[j - Len(s)] BY <1>1, <1>2, <3>2, Concat
    <3>4. y + (j - (y - x)) - 1 = x + j - 1 OBVIOUS
    <3>5. QED BY <1>1, <2>1, <3>1, <3>3, <3>4
  <2>4. QED BY <2>2, <2>3
<1> HIDE DEF s, t
<1>6. s \o t = Slice(x, y + n) BY <1>3, <1>4, <1>5, SameSeq
<1>7. QED BY <1>6 DEF s, t

LEMMA SliceShrinks ==
    ASSUME NEW x \in Nat, NEW y \in Nat, NEW n \in Nat, x + n <= y
    PROVE  SubSeq(Slice(x, y), n + 1, y - x) = Slice(x + n, y)
<1> DEFINE s == Slice(x, y)
<1>1. s \in Seq(Int) /\ Len(s) = y - x BY SliceType
<1>2. Slice(x + n, y) \in Seq(Int) /\ Len(Slice(x + n, y)) = y - (x + n)
  <2>1. x + n \in Nat OBVIOUS
  <2>2. QED BY <2>1, SliceType, Zenon
<1>3. /\ SubSeq(s, n + 1, y - x) \in Seq(Int)
      /\ Len(SubSeq(s, n + 1, y - x)) = y - (x + n)
      /\ \A j \in 1..(y - (x + n)) : SubSeq(s, n + 1, y - x)[j] = s[j + n]
  <2> HIDE DEF s
  <2>1. QED BY <1>1
<1>4. ASSUME NEW j \in 1..(y - (x + n))
      PROVE  SubSeq(s, n + 1, y - x)[j] = Slice(x + n, y)[j]
  <2>1. s[j + n] = x + (j + n) - 1 BY DEF Slice
  <2>2. Slice(x + n, y)[j] = x + n + j - 1 BY DEF Slice
  <2>3. QED BY <1>3, <2>1, <2>2
<1> HIDE DEF s
<1>5. QED BY <1>2, <1>3, <1>4 DEF s

\* What is in a ring that holds the bytes from x up to y.
LEMMA QueueIs ==
    ASSUME NEW b, NEW x \in Nat, NEW y \in Nat, x <= y,
           \A k \in x..(y - 1) : b[k % Cap] = k
    PROVE  [j \in 1..(y - x) |-> b[(x + j - 1) % Cap]] = Slice(x, y)
<1>1. ASSUME NEW j \in 1..(y - x) PROVE b[(x + j - 1) % Cap] = x + j - 1
  <2>1. x + j - 1 \in x..(y - 1) OBVIOUS
  <2>2. QED BY <2>1
<1>2. QED BY <1>1 DEF Slice

\* The queue ImplementsFifo sees in the ring, and its status.
FifoQueue == [j \in 1..(w - r) |-> buf[(r + j - 1) % Cap]]
FifoStatus == IF error THEN "failed" ELSE IF eof THEN "closed" ELSE "open"

LEMMA FifoQueueIs == IInv => FifoQueue = Slice(r, w)
<1> SUFFICES ASSUME IInv PROVE FifoQueue = Slice(r, w)
  OBVIOUS
<1>1. r \in Nat /\ w \in Nat /\ r <= w BY Types DEF IInv
<1>2. \A k \in r..(w - 1) : buf[k % Cap] = k BY DEF IInv, RingHolds
<1>3. [j \in 1..(w - r) |-> buf[(r + j - 1) % Cap]] = Slice(r, w)
  BY <1>1, <1>2, QueueIs
<1>4. QED BY <1>3 DEF FifoQueue

LEMMA FifoQueueIsNext == IInv' => FifoQueue' = Slice(r', w')
<1> SUFFICES ASSUME IInv' PROVE FifoQueue' = Slice(r', w')
  OBVIOUS
<1>1. r' \in Nat /\ w' \in Nat /\ r' <= w'
  BY RingAssumption DEF IInv, TypeOK, RingAssumption
<1>2. \A k \in r'..(w' - 1) : buf'[k % Cap] = k BY DEF IInv, RingHolds
<1>3. ASSUME NEW b, NEW x, NEW y, b = buf', x = r', y = w'
      PROVE  [j \in 1..(y - x) |-> b[(x + j - 1) % Cap]] = Slice(x, y)
  <2>1. x \in Nat /\ y \in Nat /\ x <= y /\ \A k \in x..(y - 1) : b[k % Cap] = k
    BY <1>1, <1>2, <1>3, Zenon
  <2>2. QED BY <2>1, QueueIs
<1>4. QED BY <1>3 DEF FifoQueue

LEMMA RefinesInit == Init => Fifo!Init
<1> SUFFICES ASSUME Init PROVE Fifo!Init
  OBVIOUS
<1>1. [j \in 1..(w - r) |-> buf[(r + j - 1) % Cap]] = << >> BY DEF Init
<1>2. QED BY <1>1 DEF Init, Fifo!Init

LEMMA WriteSends == ASSUME IInv, IInv', Write PROVE Fifo!Send
<1> DEFINE n == Least(block, Space)
<1>1. /\ w' = w + n /\ r' = r /\ error' = error /\ eof' = eof /\ wpc = "write"
  BY DEF Write
<1>2. n \in 1..(Cap - (w - r))
  <2>1. block \in Nat \ {0} /\ Space \in Nat \ {0} BY SMTT(30), Types DEF IInv, WriterInv, Space, Write
  <2>2. QED BY <2>1, LeastType DEF Space
<1> HIDE DEF n
<1>3. ~error /\ ~eof BY <1>1 DEF IInv, WriterInv, WriterAlive
<1>4. FifoQueue = Slice(r, w) /\ Len(FifoQueue) = w - r
  BY FifoQueueIs, Types, SliceType DEF IInv
<1>5. FifoQueue' = FifoQueue \o [j \in 1..n |-> w + j - 1]
  <2>1. n \in Nat BY <1>2
  <2>2. Slice(r, w) \o [j \in 1..n |-> w + j - 1] = Slice(r, w + n)
    <3>1. r \in Nat /\ w \in Nat /\ r <= w BY Types DEF IInv
    <3>2. QED BY <2>1, <3>1, SliceExtends
  <2>3. FifoQueue' = Slice(r, w + n) BY <1>1, FifoQueueIsNext
  <2>4. QED BY <1>4, <2>2, <2>3
<1>6. n \in 1..(Cap - Len(FifoQueue)) BY <1>2, <1>4
<1>7. FifoStatus = "open" /\ FifoStatus' = FifoStatus BY <1>1, <1>3 DEF FifoStatus
<1>8. QED BY <1>1, <1>5, <1>6, <1>7 DEF Fifo!Send, FifoQueue, FifoStatus

LEMMA ReadReceives == ASSUME IInv, IInv', ReadSome PROVE Fifo!Receive
<1> DEFINE n == Take
<1>1. /\ rpc \in Reads /\ Len(got) < want /\ w > r /\ ~error
      /\ r' = r + n /\ w' = w /\ error' = error /\ eof' = eof
  BY DEF ReadSome
<1>2. n \in 1..(w - r)
  <2>1. want - Len(got) \in Nat \ {0} /\ w - r \in Nat \ {0} BY SMTT(30), <1>1, Types DEF IInv
  <2>2. QED BY <2>1, LeastType DEF Take
<1> HIDE DEF n
<1>3. FifoQueue = Slice(r, w) /\ Len(FifoQueue) = w - r
  BY FifoQueueIs, Types, SliceType DEF IInv
<1>4. FifoQueue' = SubSeq(FifoQueue, n + 1, Len(FifoQueue))
  <2>1. n \in Nat /\ r + n <= w BY <1>2, Types DEF IInv
  <2>2. SubSeq(Slice(r, w), n + 1, w - r) = Slice(r + n, w)
    BY <2>1, Types, SliceShrinks DEF IInv
  <2>3. FifoQueue' = Slice(r + n, w) BY <1>1, FifoQueueIsNext
  <2>4. QED BY <1>3, <2>2, <2>3
<1>5. n \in 1..Len(FifoQueue) BY <1>2, <1>3
<1>6. FifoStatus # "failed" /\ FifoStatus' = FifoStatus BY <1>1 DEF FifoStatus
<1>7. QED BY <1>1, <1>4, <1>5, <1>6 DEF Fifo!Receive, FifoQueue, FifoStatus

LEMMA CloseEnds == ASSUME IInv, Close \/ SourceFails PROVE Fifo!End
<1>1. /\ buf' = buf /\ w' = w /\ r' = r /\ wpc = "source"
      /\ eof' = TRUE /\ (error' = error \/ error' = TRUE)
  BY DEF Close, SourceFails
<1>2. ~error /\ ~eof BY <1>1 DEF IInv, WriterInv, WriterAlive
<1>3. FifoStatus = "open" /\ FifoStatus' \in {"closed", "failed"}
  BY <1>1, <1>2 DEF FifoStatus
<1>4. FifoQueue' = FifoQueue BY <1>1 DEF FifoQueue
<1>5. QED BY <1>1, <1>3, <1>4 DEF Fifo!End, FifoQueue, FifoStatus

LEMMA RefinesStep == IInv /\ IInv' /\ [Next]_vars => [Fifo!Next]_(Fifo!vars)
<1> SUFFICES ASSUME IInv, IInv', [Next]_vars PROVE Fifo!Next \/ UNCHANGED Fifo!vars
  BY Zenon
<1>1. CASE Write BY <1>1, WriteSends DEF Fifo!Next
<1>2. CASE Close \/ SourceFails BY <1>2, CloseEnds DEF Fifo!Next
<1>3. CASE ReadSome BY <1>3, ReadReceives DEF Fifo!Next
<1>4. CASE UNCHANGED ringVars
  <2>1. buf' = buf /\ w' = w /\ r' = r /\ eof' = eof /\ error' = error
    BY <1>4 DEF ringVars
  <2>2. QED BY <2>1 DEF Fifo!vars
<1>5. CASE \/ NextBlock \/ ReadRaises \/ HeaderRead \/ PageRead \/ StreamRead
           \/ Join \/ JoinTimesOut \/ Ended \/ UNCHANGED vars
  <2>1. UNCHANGED ringVars
    BY <1>5 DEF NextBlock, ReadRaises, HeaderRead, PageRead, StreamRead, Join,
       JoinTimesOut, Ended, vars
  <2>2. QED BY <1>4, <2>1
<1>6. QED BY <1>1, <1>2, <1>3, <1>5 DEF Next, Writer, Reader

\* The ring, with every order of its two threads, is a bounded queue of bytes
\* that is ended once, well or with an error.
THEOREM RingIsFifo == Spec => ImplementsFifo
<1>1. QED BY RefinesInit, RefinesStep, Invariance, PTL DEF Spec, ImplementsFifo, Fifo!Spec
=============================================================================
