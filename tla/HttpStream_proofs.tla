-------------------------- MODULE HttpStream_proofs --------------------------
(***************************************************************************)
(* Proofs about HttpStream.  The invariant counts the units taken out of   *)
(* the buffer: wherever connections break, that number tells for each      *)
(* place of the program which unit of the archive the next read begins     *)
(* with.                                                                   *)
(***************************************************************************)
EXTENDS HttpStream, SequenceTheorems, TLAPS

\* The units taken out of the buffer; the next one read is Pos + 1.
Pos == offset - Len(buf)

\* A response was cut short, and what had come is used up: each read returns
\* nothing.
Cut == trouble /\ eof /\ buf = <<>>

HTypes ==
    /\ zip \in Archives
    /\ conn \in 0..(Len(file) + 1) /\ offset \in 0..Len(file)
    /\ buf \in Seq(Int) /\ out \in Seq(Int)
    /\ eof \in BOOLEAN /\ attempt \in 0..MaxRetries
    /\ cur \in 0..Len(entries) /\ left \in Nat
    /\ pc \in {"open", "sig", "head", "body", "stream", "desc", "peek", "descrest",
               "done", "raised"}
    /\ trouble \in BOOLEAN

\* The buffer holds the units next to those taken, and connections go on where
\* the bytes received end.
Buffer ==
    /\ Len(buf) <= offset /\ Len(buf) < 2 * Chunk
    /\ \A j \in 1..Len(buf) : buf[j] = Pos + j
    /\ pc = "open" => offset = 0 /\ cur = 0
    /\ pc \notin {"open", "raised"} /\ attempt = 0 => conn = offset + 1
    /\ eof /\ ~trouble => offset = Len(file)

InEntry == {"body", "stream", "desc", "peek", "descrest", "done"}

\* The entries passed are not the one wanted, and what is handed on are the first
\* units of its data.
Handed ==
    /\ \A j \in 1..(cur - 1) : ~entries[j].wanted
    /\ pc \in {"open", "sig", "head"} => out = <<>> /\ (cur > 0 => ~Taking)
    /\ pc \in InEntry => cur > 0
    /\ pc = "done" => Taking
    /\ out # <<>> => cur > 0 /\ Taking /\ Len(out) <= entries[cur].body
    /\ \A j \in 1..Len(out) : out[j] = at[cur] + 1 + j

\* The unit at p is part of a descriptor that is not of the form expected.
Stray(p) == /\ cur > 0 /\ ~Skippable(entries[cur])
            /\ p \in 1..Len(file) /\ Kind(p) = "desc"

\* The last unit of the data of the current entry.
End == at[cur] + 1 + entries[cur].body

\* Which unit a read begins with, by what is read.
Place ==
    /\ pc = "sig" => Cut \/ Pos + 1 = at[cur + 1] \/ Stray(Pos + 1)
    /\ pc = "head" => Cut \/ (cur < Len(entries) /\ Pos = at[cur + 1])
    /\ pc = "body" =>
          /\ entries[cur].comp = entries[cur].body
          /\ \/ Cut
             \/ /\ Pos = End - left /\ left <= entries[cur].body
                /\ Taking => Len(out) = entries[cur].body - left
    /\ pc = "stream" =>
          \/ Cut
          \/ /\ at[cur] + 1 <= Pos /\ Pos < End
             /\ Taking => Len(out) = Pos - at[cur] - 1
    /\ pc \in {"stream", "peek"} /\ ~Taking =>
          entries[cur].flag /\ entries[cur].comp = 0 /\ entries[cur].method = "deflate"
    /\ pc \in {"desc", "peek"} =>
          /\ entries[cur].flag
          /\ Cut \/ (Pos = End /\ (Taking => Len(out) = entries[cur].body))
    /\ pc = "desc" => entries[cur].comp = entries[cur].body
    /\ pc = "descrest" =>
          \/ Cut
          \/ /\ Taking => Len(out) = entries[cur].body
             /\ ~Taking => \/ Pos + left + 1 = at[cur + 1]
                           \/ Stray(Pos + left + 1)
    /\ pc = "done" /\ ~trouble => Len(out) = entries[cur].body
    /\ pc = "raised" /\ ~trouble => ~Servable

HInv == HTypes /\ Buffer /\ Handed /\ Place

-----------------------------------------------------------------------------
(* The archive. *)

LEMMA TrailerForm ==
    ASSUME NEW e \in Entry, WellFormed(e), e.flag
    PROVE  /\ Len(e.trailer) \in {3, 4, 5, 6}
           /\ Len(e.trailer) \in {3, 5} => \A j \in 1..Len(e.trailer) : e.trailer[j] = "desc"
           /\ Len(e.trailer) \in {4, 6} =>
                 \A j \in 1..Len(e.trailer) : e.trailer[j] = (IF j = 1 THEN "dsig" ELSE "desc")
<1>1. e.trailer \in Descriptors
  BY DEF WellFormed
<1>2. CASE e.trailer \in {[j \in 1..n |-> "desc"] : n \in {3, 5}}
  <2>1. PICK n \in {3, 5} : e.trailer = [j \in 1..n |-> "desc"]
    BY <1>2
  <2>2. Len(e.trailer) = n
    BY <2>1
  <2>. QED
    BY <2>1, <2>2
<1>3. CASE e.trailer \in {[j \in 1..n |-> IF j = 1 THEN "dsig" ELSE "desc"] : n \in {4, 6}}
  <2>1. PICK n \in {4, 6} : e.trailer = [j \in 1..n |-> IF j = 1 THEN "dsig" ELSE "desc"]
    BY <1>3
  <2>2. Len(e.trailer) = n
    BY <2>1
  <2>. QED
    BY <2>1, <2>2
<1>. QED
  BY <1>1, <1>2, <1>3 DEF Descriptors

\* The kinds of the units of an entry.
LEMMA KindsAre ==
    ASSUME NEW e \in Entry
    PROVE  /\ Len(Kinds(e)) = 2 + e.body + Len(e.trailer)
           /\ Kinds(e)[1] = "local" /\ Kinds(e)[2] = "head"
           /\ \A j \in 1..e.body : Kinds(e)[2 + j] = "body"
           /\ \A j \in 1..Len(e.trailer) : Kinds(e)[2 + e.body + j] = e.trailer[j]
<1>. DEFINE first == <<"local", "head">>
            data == [j \in 1..e.body |-> "body"]
            S == {"local", "head", "body", "dsig", "desc"}
<1>1. e.body \in Nat /\ e.trailer \in Seq(S)
  <2>1. e.body \in Nat /\ e.trailer \in Seq({"dsig", "desc"})
    BY DEF Entry
  <2>. QED
    BY <2>1, SeqMonotonic
<1>2. first \in Seq(S) /\ Len(first) = 2 /\ first[1] = "local" /\ first[2] = "head"
  OBVIOUS
<1>3. data \in Seq(S) /\ Len(data) = e.body /\ \A j \in 1..e.body : data[j] = "body"
  BY <1>1
<1>4. Kinds(e) = (first \o data) \o e.trailer
  BY DEF Kinds
<1>. HIDE DEF first, data, S
<1>5. /\ first \o data \in Seq(S) /\ Len(first \o data) = Len(first) + Len(data)
      /\ \A j \in 1..(Len(first) + Len(data)) :
            (first \o data)[j] = IF j <= Len(first) THEN first[j] ELSE data[j - Len(first)]
  BY <1>2, <1>3, ConcatProperties, ZenonT(30)
<1>. DEFINE most == first \o data
<1>. HIDE DEF most
<1>6. /\ most \in Seq(S) /\ Len(most) = 2 + e.body
      /\ \A j \in 1..(2 + e.body) : most[j] = IF j <= 2 THEN first[j] ELSE data[j - 2]
  BY <1>2, <1>3, <1>5 DEF most
<1>7. /\ Len(Kinds(e)) = Len(most) + Len(e.trailer)
      /\ \A j \in 1..(Len(most) + Len(e.trailer)) :
            Kinds(e)[j] = IF j <= Len(most) THEN most[j] ELSE e.trailer[j - Len(most)]
  <2>1. Kinds(e) = most \o e.trailer
    BY <1>4 DEF most
  <2>2. most \in Seq(S) /\ e.trailer \in Seq(S)
    BY <1>1, <1>6
  <2>. DEFINE t == e.trailer
  <2>3. \A s1, s2 \in Seq(S) :
           /\ Len(s1 \o s2) = Len(s1) + Len(s2)
           /\ \A j \in 1..(Len(s1) + Len(s2)) :
                 (s1 \o s2)[j] = IF j <= Len(s1) THEN s1[j] ELSE s2[j - Len(s1)]
    BY ConcatProperties
  <2>. HIDE DEF t
  <2>4. /\ Len(most \o t) = Len(most) + Len(t)
        /\ \A j \in 1..(Len(most) + Len(t)) :
              (most \o t)[j] = IF j <= Len(most) THEN most[j] ELSE t[j - Len(most)]
    BY <2>2, <2>3 DEF t
  <2>. QED
    BY <2>1, <2>4 DEF t
<1>8. Len(e.trailer) \in Nat
  BY <1>1, LenProperties
<1>9. Len(Kinds(e)) = 2 + e.body + Len(e.trailer)
  BY <1>1, <1>6, <1>7, <1>8
<1>10. \A j \in 1..(2 + e.body) : Kinds(e)[j] = most[j]
  BY <1>1, <1>6, <1>7, <1>8
<1>11. Kinds(e)[1] = "local" /\ Kinds(e)[2] = "head"
  BY <1>1, <1>2, <1>6, <1>10
<1>12. ASSUME NEW j \in 1..e.body PROVE Kinds(e)[2 + j] = "body"
  <2>1. 2 + j \in 1..(2 + e.body) /\ ~(2 + j <= 2) /\ (2 + j) - 2 = j
    BY <1>1
  <2>2. Kinds(e)[2 + j] = data[j]
    BY <2>1, <1>6, <1>10
  <2>. QED
    BY <2>2, <1>3
<1>13. ASSUME NEW j \in 1..Len(e.trailer) PROVE Kinds(e)[2 + e.body + j] = e.trailer[j]
  <2>1. /\ 2 + e.body + j \in 1..(Len(most) + Len(e.trailer))
        /\ ~(2 + e.body + j <= Len(most)) /\ (2 + e.body + j) - Len(most) = j
    <3>1. \A b, m, t \in Nat : m = 2 + b => \A i \in 1..t :
             /\ 2 + b + i \in 1..(m + t)
             /\ ~(2 + b + i <= m) /\ (2 + b + i) - m = i
      OBVIOUS
    <3>2. Len(most) \in Nat
      BY <1>1, <1>6
    <3>. QED
      BY <1>1, <1>6, <1>8, <3>1, <3>2
  <2>. QED
    BY <2>1, <1>7
<1>. QED
  BY <1>9, <1>11, <1>12, <1>13

\* The places of the units of the archive.
LEMMA Shape ==
    ASSUME HTypes
    PROVE  /\ Len(entries) \in Nat /\ Len(file) \in Nat \ {0}
           /\ at[1] = 1 /\ at[Len(entries) + 1] = Len(file)
           /\ \A i \in 1..(Len(entries) + 1) : at[i] \in 1..Len(file)
           /\ Kind(Len(file)) = "central"
           /\ \A i \in 1..Len(entries) :
                /\ entries[i] \in Entry /\ WellFormed(entries[i])
                /\ Len(entries[i].trailer) \in Nat
                /\ at[i + 1] = at[i] + 2 + entries[i].body + Len(entries[i].trailer)
                /\ Kind(at[i]) = "local" /\ file[at[i] + 1] = [kind |-> "head", entry |-> i]
                /\ \A j \in 1..entries[i].body : Kind(at[i] + 1 + j) = "body"
                /\ \A j \in 1..Len(entries[i].trailer) :
                      Kind(at[i] + 1 + entries[i].body + j) = entries[i].trailer[j]
<1>1. LaidOut(zip)
  BY StreamAssumption DEF HTypes
<1>2. /\ entries \in Seq(Entry) /\ \A i \in 1..Len(entries) : WellFormed(entries[i])
      /\ file \in Seq(Unit)
      /\ at \in Seq(1..Len(file)) /\ Len(at) = Len(entries) + 1
      /\ at[1] = 1 /\ at[Len(entries) + 1] = Len(file)
      /\ file[Len(file)] = [kind |-> "central", entry |-> 0]
      /\ \A i \in 1..Len(entries) :
           /\ at[i + 1] = at[i] + Len(Kinds(entries[i]))
           /\ \A j \in 1..Len(Kinds(entries[i])) :
                 file[at[i] + j - 1] = [kind |-> Kinds(entries[i])[j], entry |-> i]
  BY <1>1 DEF LaidOut, entries, file, at
<1>3. /\ Len(entries) \in Nat /\ Len(file) \in Nat
      /\ \A i \in 1..(Len(entries) + 1) : at[i] \in 1..Len(file)
  BY <1>2, LenProperties, ElementOfSeq
<1>4. ASSUME NEW i \in 1..Len(entries)
      PROVE  /\ entries[i] \in Entry /\ WellFormed(entries[i])
             /\ Len(entries[i].trailer) \in Nat
             /\ at[i + 1] = at[i] + 2 + entries[i].body + Len(entries[i].trailer)
             /\ Kind(at[i]) = "local" /\ file[at[i] + 1] = [kind |-> "head", entry |-> i]
             /\ \A j \in 1..entries[i].body : Kind(at[i] + 1 + j) = "body"
             /\ \A j \in 1..Len(entries[i].trailer) :
                   Kind(at[i] + 1 + entries[i].body + j) = entries[i].trailer[j]
  <2>. DEFINE e == entries[i]
              a == at[i]
  <2>1. e \in Entry /\ WellFormed(e)
    BY <1>2
  <2>2. e.body \in Nat /\ Len(e.trailer) \in Nat /\ a \in Nat
    BY <2>1, <1>3 DEF Entry
  <2>3. /\ at[i + 1] = a + Len(Kinds(e))
        /\ \A j \in 1..Len(Kinds(e)) : file[a + j - 1] = [kind |-> Kinds(e)[j], entry |-> i]
    BY <1>2
  <2>. HIDE DEF e, a
  <2>9. /\ Len(Kinds(e)) = 2 + e.body + Len(e.trailer)
        /\ Kinds(e)[1] = "local" /\ Kinds(e)[2] = "head"
    BY <2>1, KindsAre
  <2>4. \A j \in 1..(2 + e.body + Len(e.trailer)) :
            file[a + j - 1] = [kind |-> Kinds(e)[j], entry |-> i]
    BY <2>3, <2>9
  <2>5. file[a] = [kind |-> "local", entry |-> i] /\ file[a + 1] = [kind |-> "head", entry |-> i]
    <3>1. file[a + 1 - 1] = [kind |-> Kinds(e)[1], entry |-> i]
      BY <2>2, <2>4
    <3>2. file[a + 2 - 1] = [kind |-> Kinds(e)[2], entry |-> i]
      BY <2>2, <2>4
    <3>3. a + 1 - 1 = a /\ a + 2 - 1 = a + 1
      BY <2>2
    <3>. QED
      BY <3>1, <3>2, <3>3, <2>9
  <2>6. \A j \in 1..e.body : Kind(a + 1 + j) = "body"
    <3>1. TAKE j \in 1..e.body
    <3>2. 2 + j \in 1..(2 + e.body + Len(e.trailer)) /\ a + (2 + j) - 1 = a + 1 + j
      BY <2>2
    <3>3. file[a + 1 + j] = [kind |-> Kinds(e)[2 + j], entry |-> i]
      BY <2>4, <3>2
    <3>. QED
      BY <3>3, <2>1, KindsAre DEF Kind
  <2>7. \A j \in 1..Len(e.trailer) : Kind(a + 1 + e.body + j) = e.trailer[j]
    <3>1. TAKE j \in 1..Len(e.trailer)
    <3>2. /\ 2 + e.body + j \in 1..(2 + e.body + Len(e.trailer))
          /\ a + (2 + e.body + j) - 1 = a + 1 + e.body + j
      BY SMTT(30), <2>2
    <3>3. file[a + 1 + e.body + j] = [kind |-> Kinds(e)[2 + e.body + j], entry |-> i]
      BY <2>4, <3>2
    <3>. QED
      BY <3>3, <2>1, KindsAre DEF Kind
  <2>10. at[i + 1] = a + (2 + e.body + Len(e.trailer))
    BY <2>3, <2>9
  <2>11. \A b, l \in Nat : a + (2 + b + l) = a + 2 + b + l
    BY <2>2
  <2>8. at[i + 1] = a + 2 + e.body + Len(e.trailer)
    BY <2>2, <2>10, <2>11
  <2>. QED
    BY <2>1, <2>2, <2>5, <2>6, <2>7, <2>8 DEF Kind, e, a
<1>5. Kind(Len(file)) = "central"
  BY <1>2 DEF Kind
<1>6. Len(file) # 0
  BY <1>3
<1>. QED
  BY <1>2, <1>3, <1>4, <1>5, <1>6

-----------------------------------------------------------------------------
(* The buffer. *)

\* A piece of the buffer, by place.
LEMMA PieceIs ==
    ASSUME HTypes, Buffer, NEW m \in 1..(Len(buf) + 1), NEW k \in (m - 1)..Len(buf)
    PROVE  /\ SubSeq(buf, m, k) \in Seq(Int) /\ Len(SubSeq(buf, m, k)) = k - m + 1
           /\ \A j \in 1..(k - m + 1) : SubSeq(buf, m, k)[j] = Pos + m - 1 + j
<1>1. buf \in Seq(Int) /\ Len(buf) \in Nat /\ offset \in Int /\ Pos \in Int
  BY LenProperties DEF HTypes, Pos
<1>2. \A i \in m..k : buf[i] \in Int /\ buf[i] = Pos + i
  BY <1>1 DEF Buffer
<1>3. /\ SubSeq(buf, m, k) \in Seq(Int)
      /\ Len(SubSeq(buf, m, k)) = IF m <= k THEN k - m + 1 ELSE 0
      /\ \A j \in 1..(k - m + 1) : SubSeq(buf, m, k)[j] = buf[m + j - 1]
  <2>1. m \in Int /\ k \in Int
    BY <1>1
  <2>. QED
    BY <1>2, <2>1, SubSeqProperties
<1>4. Len(SubSeq(buf, m, k)) = k - m + 1
  BY <1>1, <1>3
<1>5. ASSUME NEW j \in 1..(k - m + 1) PROVE SubSeq(buf, m, k)[j] = Pos + m - 1 + j
  <2>1. m + j - 1 \in m..k
    BY <1>1
  <2>2. SubSeq(buf, m, k)[j] = Pos + (m + j - 1)
    BY <1>2, <1>3, <2>1
  <2>. QED
    BY <1>1, <2>2
<1>. QED
  BY <1>3, <1>4, <1>5

\* The block a read returns and what is behind it.
LEMMA BlockIs ==
    ASSUME HTypes, Buffer
    PROVE  /\ Want \in Nat /\ Len(Block) \in 0..Len(buf)
           /\ Block \in Seq(Int) /\ Behind \in Seq(Int)
           /\ Len(Behind) = Len(buf) - Len(Block)
           /\ \A j \in 1..Len(Block) : Block[j] = Pos + j
           /\ \A j \in 1..Len(Behind) : Behind[j] = Pos + Len(Block) + j
           /\ Len(Block) = Least(IF Discarding THEN left ELSE Want, Len(buf))
           /\ Behind = SubSeq(buf, Len(Block) + 1, Len(buf))
<1>1. Len(buf) \in Nat /\ left \in Nat /\ Chunk \in Nat /\ Pos \in Int
  BY StreamAssumption, LenProperties DEF HTypes, Pos
<1>2. Want \in Nat
  BY <1>1 DEF Want, Least
<1>. DEFINE k == Least(IF Discarding THEN left ELSE Want, Len(buf))
<1>3. k \in 0..Len(buf)
  BY <1>1, <1>2 DEF Least
<1>4. Block = SubSeq(buf, 1, k)
  BY DEF Block
<1>. HIDE DEF k
<1>5. /\ Block \in Seq(Int) /\ Len(Block) = k
      /\ \A j \in 1..k : Block[j] = Pos + j
  <2>1. 1 \in 1..(Len(buf) + 1) /\ k \in (1 - 1)..Len(buf) /\ k - 1 + 1 = k
    BY <1>1, <1>3
  <2>2. \A j \in Int : Pos + 1 - 1 + j = Pos + j
    BY <1>1
  <2>3. /\ SubSeq(buf, 1, k) \in Seq(Int) /\ Len(SubSeq(buf, 1, k)) = k - 1 + 1
        /\ \A j \in 1..(k - 1 + 1) : SubSeq(buf, 1, k)[j] = Pos + 1 - 1 + j
    BY <2>1, PieceIs
  <2>. QED
    BY <1>4, <2>1, <2>2, <2>3
<1>6. /\ Behind \in Seq(Int) /\ Len(Behind) = Len(buf) - k
      /\ \A j \in 1..(Len(buf) - k) : Behind[j] = Pos + k + j
  <2>1. /\ k + 1 \in 1..(Len(buf) + 1) /\ Len(buf) \in ((k + 1) - 1)..Len(buf)
        /\ Len(buf) - (k + 1) + 1 = Len(buf) - k
    BY <1>1, <1>3
  <2>2. \A j \in Int : Pos + (k + 1) - 1 + j = Pos + k + j
    BY <1>1, <1>3
  <2>3. /\ SubSeq(buf, k + 1, Len(buf)) \in Seq(Int)
        /\ Len(SubSeq(buf, k + 1, Len(buf))) = Len(buf) - (k + 1) + 1
        /\ \A j \in 1..(Len(buf) - (k + 1) + 1) :
              SubSeq(buf, k + 1, Len(buf))[j] = Pos + (k + 1) - 1 + j
    BY <2>1, PieceIs
  <2>. QED
    BY <1>5, <2>1, <2>2, <2>3 DEF Behind
<1>. QED
  BY <1>2, <1>3, <1>5, <1>6 DEF k, Behind

\* Taking units from the front leaves the buffer in order.
LEMMA TakesUnits ==
    ASSUME HTypes, Buffer, NEW k \in 0..Len(buf), pc # "open",
           buf' \in Seq(Int), Len(buf') = Len(buf) - k,
           \A j \in 1..(Len(buf) - k) : buf'[j] = Pos + k + j,
           pc' # "open", pc \notin {"open", "raised"},
           UNCHANGED <<zip, conn, offset, eof, attempt, trouble>>
    PROVE  Buffer' /\ Pos' = Pos + k
<1>1. Len(buf) \in Nat /\ offset \in Nat /\ Chunk \in Nat /\ Pos \in Int
  BY StreamAssumption, LenProperties DEF HTypes, Pos
<1>2. Pos' = Pos + k
  BY <1>1 DEF Pos
<1>3. Len(buf') <= offset' /\ Len(buf') < 2 * Chunk
  BY <1>1 DEF Buffer
<1>4. \A j \in 1..Len(buf') : buf'[j] = Pos' + j
  BY <1>1, <1>2
<1>5. file' = file
  BY DEF file
<1>6. /\ pc' = "open" => offset' = 0 /\ cur' = 0
      /\ pc' \notin {"open", "raised"} /\ attempt' = 0 => conn' = offset' + 1
      /\ eof' /\ ~trouble' => offset' = Len(file')
  BY <1>5 DEF Buffer
<1>. QED
  BY <1>2, <1>3, <1>4, <1>6 DEF Buffer

-----------------------------------------------------------------------------
(* The connection. *)

\* The place of the reader does not depend on what the connection does.
LEMMA PlaceStays ==
    ASSUME Place, Cut => Cut', trouble => trouble', Pos' = Pos,
           UNCHANGED <<zip, cur, left, out, pc>>
    PROVE  Place'
<1>1. /\ entries' = entries /\ file' = file /\ at' = at
      /\ Taking' = Taking /\ End' = End /\ Servable' = Servable
  BY DEF entries, file, at, Taking, End, Servable, Wanted
<1>2. Stray(Pos + 1)' = Stray(Pos + 1) /\ Stray(Pos + left + 1)' = Stray(Pos + left + 1)
  BY <1>1 DEF Stray, Kind
<1>. QED
  BY <1>1, <1>2 DEF Place

LEMMA HandedStays ==
    ASSUME Handed, UNCHANGED <<zip, cur, out>>,
           pc' \in {pc, "raised"} \/ (pc = "open" /\ pc' = "sig")
    PROVE  Handed'
<1>1. entries' = entries /\ at' = at /\ Taking' = Taking
  BY DEF entries, at, Taking
<1>2. /\ pc' \in {"open", "sig", "head"} => pc \in {"open", "sig", "head"}
      /\ pc' \in InEntry => pc \in InEntry /\ pc = pc'
      /\ pc' = "done" => pc = "done"
  BY DEF InEntry
<1>. QED
  BY <1>1, <1>2 DEF Handed

LEMMA OpenStep ==
    ASSUME HInv, Open
    PROVE  HInv'
<1>1. /\ zip' = zip /\ UNCHANGED <<buf, offset, eof, attempt, cur, left, out>>
      /\ \/ pc' = "sig" /\ conn' = 1 /\ trouble' = trouble
         \/ pc' = "raised" /\ trouble' = TRUE /\ conn' = conn
      /\ pc = "open"
  BY DEF Open, walkVars
<1>2. entries' = entries /\ file' = file /\ at' = at /\ Pos' = Pos
  BY <1>1 DEF entries, file, at, Pos
<1>3. Len(file) \in Nat \ {0} /\ at[1] = 1 /\ Len(buf) \in Nat
  BY Shape, LenProperties DEF HInv, HTypes
<1>4. offset = 0 /\ cur = 0 /\ Pos = 0
  BY <1>1, <1>3 DEF HInv, Buffer, Pos
<1>5. HTypes'
  <2>1. conn' \in 0..(Len(file) + 1)
    BY <1>1, <1>3 DEF HInv, HTypes
  <2>3. trouble' \in BOOLEAN
    BY <1>1, Zenon DEF HInv, HTypes
  <2>2. pc' \in {"sig", "raised"}
    BY <1>1
  <2>. QED
    BY <1>1, <1>2, <2>1, <2>2, <2>3 DEF HInv, HTypes
<1>6. Buffer'
  BY <1>1, <1>2, <1>4 DEF HInv, Buffer
<1>7. Handed'
  BY <1>1, HandedStays DEF HInv
<1>8. Place'
  BY <1>1, <1>2, <1>3, <1>4 DEF Place
<1>. QED
  BY <1>5, <1>6, <1>7, <1>8 DEF HInv

LEMMA DeliverStep ==
    ASSUME HInv, Deliver
    PROVE  HInv'
<1>1. /\ pc \notin {"open", "done", "raised"} /\ ~eof /\ attempt = 0 /\ Len(buf) < Want
      /\ UNCHANGED <<zip, eof, attempt, cur, left, out, pc, trouble>>
  BY DEF Deliver, Filling, Reading, walkVars
<1>2. PICK n \in 1..Chunk :
        /\ conn + n <= Len(file) + 1
        /\ buf' = buf \o [j \in 1..n |-> conn + j - 1]
        /\ conn' = conn + n /\ offset' = offset + n
  BY DEF Deliver
<1>3. /\ Len(file) \in Nat /\ Len(buf) \in Nat /\ Chunk \in Nat \ {0} /\ n \in Nat
      /\ left \in Nat /\ offset \in Nat /\ conn = offset + 1
  BY <1>1, Shape, LenProperties, StreamAssumption DEF HInv, HTypes, Buffer
<1>4. Want <= Chunk
  BY <1>3 DEF Want, Least
<1>. DEFINE block == [j \in 1..n |-> conn + j - 1]
<1>5. block \in Seq(Int) /\ Len(block) = n /\ \A j \in 1..n : block[j] = offset + j
  BY <1>3
<1>. HIDE DEF block
<1>6. buf \in Seq(Int) /\ buf' = buf \o block
  BY <1>2 DEF block, HInv, HTypes
<1>7. /\ buf' \in Seq(Int) /\ Len(buf') = Len(buf) + Len(block)
      /\ \A j \in 1..(Len(buf) + Len(block)) :
            buf'[j] = IF j <= Len(buf) THEN buf[j] ELSE block[j - Len(buf)]
  BY <1>5, <1>6, ConcatProperties
<1>8. entries' = entries /\ file' = file /\ Pos' = Pos
  BY <1>1, <1>2, <1>3, <1>5, <1>7 DEF entries, file, Pos
<1>9. HTypes'
  BY <1>1, <1>2, <1>3, <1>7, <1>8 DEF HInv, HTypes
<1>10. \A j \in 1..Len(buf') : buf'[j] = Pos' + j
  <2>1. TAKE j \in 1..Len(buf')
  <2>2. CASE j <= Len(buf)
    <3>1. j \in 1..Len(buf)
      BY <1>3, <1>5, <1>7, <2>2
    <3>. QED
      BY <1>5, <1>7, <1>8, <2>2, <3>1 DEF HInv, Buffer
  <2>3. CASE ~(j <= Len(buf))
    <3>1. j - Len(buf) \in 1..n /\ offset + (j - Len(buf)) = Pos + j
      BY <1>3, <1>5, <1>7, <2>3 DEF Pos
    <3>. QED
      BY <1>5, <1>7, <1>8, <2>3, <3>1
  <2>. QED
    BY <2>2, <2>3
<1>11. Len(buf') <= offset' /\ Len(buf') < 2 * Chunk
  <2>1. Len(buf) < Chunk /\ Len(buf) <= offset
    BY <1>1, <1>3, <1>4, BlockIs DEF HInv, Buffer
  <2>. QED
    BY <1>2, <1>3, <1>5, <1>7, <2>1
<1>12. Buffer'
  <2>1. conn' = offset' + 1
    BY <1>2, <1>3
  <2>. QED
    BY <1>1, <1>10, <1>11, <2>1 DEF Buffer
<1>13. Handed' /\ Place'
  BY <1>1, <1>8, HandedStays, PlaceStays DEF HInv, Cut
<1>. QED
  BY <1>9, <1>12, <1>13 DEF HInv

\* Nothing arrives; the response ends, is cut short, or an attempt to reconnect
\* begins, succeeds or fails without being the last.
LEMMA ConnectionStep ==
    ASSUME HInv, ResponseEnds \/ CutShort \/ ReadFails \/ Reopened \/ ReopenFails
    PROVE  HInv'
<1>1. /\ UNCHANGED <<zip, buf, offset, cur, left, out>>
      /\ eof' \in BOOLEAN /\ trouble' \in BOOLEAN
      /\ eof => eof'
      /\ trouble => trouble'
  <2>1. UNCHANGED <<zip, buf, offset, cur, left, out>>
    BY DEF ResponseEnds, CutShort, ReadFails, Reopened, ReopenFails, walkVars
  <2>2. (eof' = TRUE \/ eof' = eof) /\ (trouble' = TRUE \/ trouble' = trouble)
    BY DEF ResponseEnds, CutShort, ReadFails, Reopened, ReopenFails, EofAfterError
  <2>3. eof \in BOOLEAN /\ trouble \in BOOLEAN
    BY DEF HInv, HTypes
  <2>. QED
    BY <2>1, <2>2, <2>3
<1>2. entries' = entries /\ file' = file /\ Pos' = Pos
  BY <1>1 DEF entries, file, Pos
<1>3. pc' = pc \/ (pc' = "raised" /\ trouble')
  BY DEF ResponseEnds, CutShort, ReadFails, Reopened, ReopenFails
<1>4. Len(file) \in Nat /\ MaxRetries \in Nat \ {0}
  BY Shape, StreamAssumption DEF HInv
<1>5. HTypes'
  <2>1. attempt' \in 0..MaxRetries
    BY <1>4 DEF HInv, HTypes, ResponseEnds, CutShort, ReadFails, Reopened, ReopenFails, NextAttempt
  <2>2. conn' \in 0..(Len(file) + 1)
    BY <1>4 DEF HInv, HTypes, ResponseEnds, CutShort, ReadFails, Reopened, ReopenFails, Resume
  <2>. QED
    BY <1>1, <1>2, <1>3, <2>1, <2>2 DEF HInv, HTypes
<1>6. Buffer'
  <2>1. Len(buf') <= offset' /\ Len(buf') < 2 * Chunk /\ \A j \in 1..Len(buf') : buf'[j] = Pos' + j
    BY <1>1, <1>2 DEF HInv, Buffer
  <2>2. pc' = "open" => offset' = 0 /\ cur' = 0
    BY <1>1, <1>3 DEF HInv, Buffer
  <2>3. pc' \notin {"open", "raised"} /\ attempt' = 0 => conn' = offset' + 1
    <3>1. CASE ResponseEnds \/ CutShort
      BY <3>1, <1>1 DEF HInv, Buffer, ResponseEnds, CutShort, Filling, Reading
    <3>2. CASE ReadFails
      BY <3>2 DEF ReadFails
    <3>3. CASE Reopened
      BY <3>3, <1>1 DEF Reopened, Resume
    <3>4. CASE ReopenFails
      BY <3>4, <1>4 DEF HInv, HTypes, ReopenFails, NextAttempt
    <3>. QED
      BY <3>1, <3>2, <3>3, <3>4
  <2>4. eof' /\ ~trouble' => offset' = Len(file')
    <3>1. CASE ResponseEnds
      BY <3>1, <1>1, <1>2, <1>4 DEF HInv, HTypes, Buffer, ResponseEnds, Filling, Reading
    <3>2. CASE CutShort
      BY <3>2 DEF CutShort
    <3>3. CASE ReadFails \/ Reopened \/ ReopenFails
      BY <3>3, <1>1, <1>2 DEF HInv, HTypes, Buffer, ReadFails, Reopened, ReopenFails, EofAfterError
    <3>. QED
      BY <3>1, <3>2, <3>3
  <2>. QED
    BY <2>1, <2>2, <2>3, <2>4 DEF Buffer
<1>7. Handed'
  BY <1>1, <1>3, HandedStays DEF HInv
<1>8. Place'
  <2>1. CASE pc' = pc
    BY <2>1, <1>1, <1>2, PlaceStays DEF HInv, Cut
  <2>2. CASE pc' = "raised" /\ trouble'
    BY <2>2 DEF Place
  <2>. QED
    BY <1>3, <2>1, <2>2
<1>. QED
  BY <1>5, <1>6, <1>7, <1>8 DEF HInv

-----------------------------------------------------------------------------
(* The walk. *)

\* Numbers that the steps compute with.
LEMMA Numbers ==
    ASSUME HInv
    PROVE  /\ Len(entries) \in Nat /\ Len(file) \in Nat \ {0} /\ Len(buf) \in Nat
           /\ Len(out) \in Nat /\ offset \in 0..Len(file) /\ Pos \in 0..Len(file)
           /\ left \in Nat /\ cur \in 0..Len(entries) /\ Chunk \in Nat \ {0}
           /\ cur > 0 => /\ entries[cur].body \in Nat /\ at[cur] \in 1..Len(file)
                         /\ End \in Nat /\ End = at[cur] + 1 + entries[cur].body
           /\ pc # "open" /\ buf = <<>> /\ eof => trouble \/ Pos = Len(file)
           /\ buf = <<>> <=> Len(buf) = 0
           /\ Block = <<>> <=> Len(Block) = 0
<1>1. /\ Len(entries) \in Nat /\ Len(file) \in Nat \ {0} /\ Len(buf) \in Nat
      /\ Len(out) \in Nat /\ offset \in 0..Len(file)
      /\ left \in Nat /\ cur \in 0..Len(entries) /\ Chunk \in Nat \ {0}
  BY Shape, StreamAssumption, LenProperties DEF HInv, HTypes
<1>2. Len(buf) <= offset
  BY DEF HInv, Buffer
<1>3. Pos \in 0..Len(file)
  BY <1>1, <1>2 DEF Pos
<1>4. ASSUME cur > 0
      PROVE  /\ entries[cur].body \in Nat /\ at[cur] \in 1..Len(file)
             /\ End \in Nat /\ End = at[cur] + 1 + entries[cur].body
  <2>1. cur \in 1..Len(entries) /\ cur \in 1..(Len(entries) + 1)
    BY <1>1, <1>4
  <2>2. entries[cur] \in Entry /\ at[cur] \in 1..Len(file)
    BY <2>1, Shape DEF HInv
  <2>3. entries[cur].body \in Nat
    BY <2>2 DEF Entry
  <2>. QED
    BY SMTT(30), <1>1, <2>2, <2>3 DEF End
<1>5. buf = <<>> <=> Len(buf) = 0
  BY EmptySeq DEF HInv, HTypes
<1>6. Block = <<>> <=> Len(Block) = 0
  BY EmptySeq, BlockIs DEF HInv
<1>7. buf = <<>> /\ eof => trouble \/ Pos = Len(file)
  BY <1>1, <1>5 DEF HInv, Buffer, Pos
<1>. QED
  BY <1>1, <1>3, <1>4, <1>5, <1>6, <1>7

\* Behind the data of an entry.
LEMMA AfterData ==
    ASSUME HInv, cur > 0
    PROVE  LET e == entries[cur] IN
           /\ e \in Entry /\ WellFormed(e) /\ Len(e.trailer) \in Nat
           /\ at[cur + 1] = End + 1 + Len(e.trailer) /\ at[cur + 1] \in 1..Len(file)
           /\ Kind(at[cur]) = "local"
           /\ \A p \in (at[cur] + 2)..End : Kind(p) = "body"
           /\ \A j \in 1..Len(e.trailer) : Kind(End + j) = e.trailer[j]
           /\ Kind(End + 1) # "body"
           /\ Kind(at[cur + 1]) = (IF cur = Len(entries) THEN "central" ELSE "local")
<1>. DEFINE e == entries[cur]
            l == Len(e.trailer)
<1>1. cur \in 1..Len(entries) /\ cur + 1 \in 1..(Len(entries) + 1)
  BY SMTT(30), Numbers
<1>2. /\ e \in Entry /\ WellFormed(e) /\ l \in Nat
      /\ at[cur + 1] = at[cur] + 2 + e.body + l /\ at[cur + 1] \in 1..Len(file)
      /\ Kind(at[cur]) = "local"
      /\ \A j \in 1..e.body : Kind(at[cur] + 1 + j) = "body"
      /\ \A j \in 1..l : Kind(at[cur] + 1 + e.body + j) = e.trailer[j]
  BY <1>1, Shape DEF HInv
<1>3. e.body \in Nat /\ at[cur] \in Nat /\ End = at[cur] + 1 + e.body /\ Len(entries) \in Nat
  BY Numbers
<1>. HIDE DEF e, l
<1>4. at[cur + 1] = End + 1 + l
  <2>1. \A a, b, n \in Nat : a + 2 + b + n = (a + 1 + b) + 1 + n
    OBVIOUS
  <2>. QED
    BY <1>2, <1>3, <2>1
<1>5. ASSUME NEW p \in (at[cur] + 2)..End PROVE Kind(p) = "body"
  <2>1. \A a, b \in Nat : \A q \in (a + 2)..(a + 1 + b) :
            q - a - 1 \in 1..b /\ a + 1 + (q - a - 1) = q
    OBVIOUS
  <2>2. p - at[cur] - 1 \in 1..e.body /\ at[cur] + 1 + (p - at[cur] - 1) = p
    BY <1>3, <2>1
  <2>. QED
    BY <1>2, <2>2
<1>6. \A j \in 1..l : Kind(End + j) = e.trailer[j]
  BY <1>2, <1>3
<1>7. Kind(at[cur + 1]) = (IF cur = Len(entries) THEN "central" ELSE "local")
  <2>1. CASE cur = Len(entries)
    BY <2>1, Shape DEF HInv
  <2>2. CASE cur # Len(entries)
    <3>1. cur + 1 \in 1..Len(entries)
      BY <1>1, <1>3, <2>2
    <3>. QED
      BY <2>2, <3>1, Shape DEF HInv
  <2>. QED
    BY <2>1, <2>2
<1>8. Kind(End + 1) # "body"
  <2>1. CASE l = 0
    BY <2>1, <1>2, <1>3, <1>4, <1>7
  <2>2. CASE l # 0
    <3>1. 1 \in 1..l
      BY <1>2, <2>2
    <3>2. e.trailer[1] \in {"dsig", "desc"}
      <4>1. e.trailer \in Seq({"dsig", "desc"})
        BY <1>2 DEF Entry
      <4>. QED
        BY <3>1, <4>1, ElementOfSeq DEF l
    <3>. QED
      BY <1>6, <3>1, <3>2
  <2>. QED
    BY <2>1, <2>2
<1>. QED
  BY <1>2, <1>4, <1>5, <1>6, <1>7, <1>8 DEF e, l

\* The walk stops for good behind the last entry, or in one it cannot step over.
LEMMA Stuck ==
    ASSUME HTypes, NEW c \in 0..Len(entries),
           \A j \in 1..c : ~entries[j].wanted,
           c = Len(entries) \/ (c > 0 /\ ~Skippable(entries[c]))
    PROVE  ~Servable
<1>1. SUFFICES ASSUME NEW i \in 1..Len(entries), Wanted(i),
                      \A j \in 1..(i - 1) : Skippable(entries[j])
               PROVE  FALSE
  BY DEF Servable
<1>2. Len(entries) \in Nat
  BY Shape
<1>3. entries[i].wanted
  BY <1>1 DEF Wanted
<1>4. i > c
  BY <1>2, <1>3
<1>5. c > 0 => c \in 1..(i - 1)
  BY <1>2, <1>4
<1>. QED
  BY <1>1, <1>2, <1>4, <1>5

\* What is handed on are the next units of the data.
LEMMA HandsOn ==
    ASSUME HInv, cur > 0, NEW s \in Seq(Int), Pos = at[cur] + 1 + Len(out),
           \A j \in 1..Len(s) : s[j] = Pos + j
    PROVE  /\ out \o s \in Seq(Int) /\ Len(out \o s) = Len(out) + Len(s)
           /\ \A j \in 1..Len(out \o s) : (out \o s)[j] = at[cur] + 1 + j
<1>1. out \in Seq(Int) /\ Len(out) \in Nat /\ Len(s) \in Nat /\ Pos \in Int /\ at[cur] \in Int
  BY Numbers, LenProperties DEF HInv, HTypes
<1>2. /\ out \o s \in Seq(Int) /\ Len(out \o s) = Len(out) + Len(s)
      /\ \A j \in 1..(Len(out) + Len(s)) :
            (out \o s)[j] = IF j <= Len(out) THEN out[j] ELSE s[j - Len(out)]
  BY <1>1, ConcatProperties
<1>3. ASSUME NEW j \in 1..(Len(out) + Len(s)) PROVE (out \o s)[j] = at[cur] + 1 + j
  <2>1. CASE j <= Len(out)
    <3>1. j \in 1..Len(out)
      BY <1>1, <2>1
    <3>. QED
      BY <1>2, <2>1, <3>1 DEF HInv, Handed
  <2>2. CASE ~(j <= Len(out))
    <3>1. \A a, m, n \in Int : (a + 1 + m) + (n - m) = a + 1 + n
      OBVIOUS
    <3>2. j \in Int /\ j - Len(out) \in 1..Len(s)
      BY <1>1, <2>2
    <3>3. Pos + (j - Len(out)) = at[cur] + 1 + j
      BY SMTT(30), <1>1, <3>1, <3>2
    <3>. QED
      BY <1>2, <2>2, <3>2, <3>3
  <2>. QED
    BY <2>1, <2>2
<1>. QED
  BY <1>2, <1>3

-----------------------------------------------------------------------------
(* The steps of the walk. *)

\* A read has what it needs, or the stream has ended.
LEMMA EmptyRead ==
    ASSUME HInv, Ready, Block = <<>>, ~Cut
    PROVE  \/ Pos = Len(file)
           \/ (IF Discarding THEN left ELSE Want) = 0 /\ Want = 0
<1>. DEFINE w == IF Discarding THEN left ELSE Want
<1>1. Len(buf) \in Nat /\ left \in Nat /\ Chunk \in Nat \ {0} /\ Want \in Nat
  BY Numbers, BlockIs DEF HInv
<1>2. Len(Block) = Least(w, Len(buf)) /\ Len(Block) = 0
  BY Numbers, BlockIs DEF HInv
<1>3. w \in Nat
  BY <1>1
<1>4. w = 0 \/ Len(buf) = 0
  BY <1>1, <1>2, <1>3 DEF Least
<1>5. Discarding => Want = Least(Chunk, left)
  BY DEF Discarding, Want
<1>6. w = 0 <=> Want = 0
  BY <1>1, <1>5 DEF Least
<1>7. CASE w = 0
  BY <1>6, <1>7
<1>8. CASE w # 0
  <2>1. buf = <<>> /\ eof
    BY <1>1, <1>4, <1>6, <1>8, Numbers DEF Ready
  <2>2. pc # "open"
    BY DEF Ready, Reading
  <2>. QED
    BY <2>1, <2>2, Numbers DEF Cut
<1>. QED
  BY <1>7, <1>8

\* What a step of the walk takes from the buffer leaves the rest in order.
LEMMA WalkTakes ==
    ASSUME HInv, Reading, buf' = Behind, pc' # "open",
           UNCHANGED <<zip, conn, offset, eof, attempt, trouble>>
    PROVE  Buffer' /\ Pos' = Pos + Len(Block) /\ buf' \in Seq(Int)
<1>1. /\ Len(Block) \in 0..Len(buf) /\ Behind \in Seq(Int)
      /\ Len(Behind) = Len(buf) - Len(Block)
      /\ \A j \in 1..Len(Behind) : Behind[j] = Pos + Len(Block) + j
  BY BlockIs DEF HInv
<1>. QED
  BY <1>1, TakesUnits DEF HInv, Reading

LEMMA WalkLeaves ==
    ASSUME HInv, Reading, pc' # "open",
           UNCHANGED <<zip, conn, buf, offset, eof, attempt, trouble>>
    PROVE  Buffer' /\ Pos' = Pos /\ buf' \in Seq(Int)
<1>1. file' = file /\ Pos' = Pos
  BY DEF file, Pos
<1>. QED
  BY <1>1 DEF HInv, HTypes, Buffer, Reading

\* A read of one unit.
LEMMA OneUnit ==
    ASSUME HInv, pc \in {"sig", "head", "desc", "peek"}, Ready, ~Cut, Pos < Len(file)
    PROVE  Block # <<>> /\ Len(Block) = 1 /\ buf[1] = Pos + 1
<1>1. Want = 1 /\ ~Discarding
  BY DEF Want, Discarding
<1>2. Block # <<>>
  BY <1>1, EmptyRead, Numbers
<1>3. Len(buf) \in Nat /\ Len(Block) \in 0..Len(buf) /\ Len(Block) # 0
  BY <1>2, Numbers, BlockIs DEF HInv
<1>4. Len(Block) = Least(1, Len(buf))
  BY <1>1, BlockIs DEF HInv
<1>5. Len(Block) = 1 /\ 1 \in 1..Len(buf)
  <2>1. \A n \in Nat : Least(1, n) = 0 \/ (Least(1, n) = 1 /\ 1 \in 1..n)
    BY DEF Least
  <2>. QED
    BY <1>3, <1>4, <2>1
<1>6. buf[1] = Pos + 1
  BY <1>5 DEF HInv, Buffer
<1>. QED
  BY <1>2, <1>5, <1>6

LEMMA CutRead ==
    ASSUME HInv, Cut
    PROVE  Block = <<>> /\ Behind = <<>> /\ buf = <<>>
<1>1. Len(buf) = 0 /\ buf = <<>>
  BY EmptySeq DEF Cut
<1>2. Len(Block) = 0 /\ Len(Behind) = 0 /\ Behind \in Seq(Int)
  BY <1>1, BlockIs DEF HInv
<1>. QED
  BY <1>1, <1>2, Numbers, EmptySeq

LEMMA ReadSigStep ==
    ASSUME HInv, ReadSig
    PROVE  HInv'
<1>1. /\ pc = "sig" /\ Ready /\ pc' = (IF Got("local") THEN "head" ELSE "raised")
      /\ buf' = Behind
      /\ UNCHANGED <<zip, conn, offset, eof, attempt, cur, left, out, trouble>>
  BY DEF ReadSig, walkVars
<1>2. Reading /\ pc' \in {"head", "raised"}
  BY <1>1 DEF Ready
<1>3. Buffer' /\ Pos' = Pos + Len(Block) /\ buf' \in Seq(Int)
  BY <1>1, <1>2, WalkTakes
<1>4. /\ entries' = entries /\ file' = file /\ at' = at
      /\ Taking' = Taking /\ Servable' = Servable
  BY <1>1 DEF entries, file, at, Taking, Servable, Wanted
<1>5. HTypes'
  BY <1>1, <1>2, <1>3, <1>4 DEF HInv, HTypes
<1>6. Handed'
  <2>1. out = <<>> /\ (cur > 0 => ~Taking)
    BY <1>1 DEF HInv, Handed
  <2>. QED
    BY <2>1, <1>1, <1>2, <1>4 DEF HInv, Handed, InEntry
<1>7. Place'
  <2>1. CASE Cut
    <3>1. pc' = "raised" /\ trouble'
      BY <2>1, <1>1, CutRead DEF Got, Cut
    <3>. QED
      BY <3>1 DEF Place
  <2>2. CASE ~Cut
    <3>1. Pos + 1 = at[cur + 1] \/ Stray(Pos + 1)
      BY <1>1, <2>2 DEF HInv, Place
    <3>2. at[cur + 1] \in 1..Len(file) /\ Len(entries) \in Nat /\ cur \in 0..Len(entries)
      <4>1. cur + 1 \in 1..(Len(entries) + 1)
        BY Numbers
      <4>. QED
        BY <4>1, Shape, Numbers DEF HInv
    <3>3. Pos + 1 \in 1..Len(file)
      BY <3>1, <3>2 DEF Stray
    <3>4. Len(Block) = 1 /\ buf[1] = Pos + 1 /\ Block # <<>>
      <4>1. Pos < Len(file)
        BY <3>3, Numbers
      <4>. QED
        BY <4>1, <1>1, <2>2, OneUnit
    <3>5. cur < Len(entries) => Kind(at[cur + 1]) = "local"
      <4>1. cur < Len(entries) => cur + 1 \in 1..Len(entries)
        BY <3>2
      <4>. QED
        BY <4>1, Shape DEF HInv
    <3>6. cur = Len(entries) => Kind(at[cur + 1]) = "central"
      BY Shape DEF HInv
    <3>7. CASE Kind(Pos + 1) = "local"
      <4>1. Got("local") /\ pc' = "head"
        BY <3>4, <3>7, <1>1 DEF Got
      <4>2. Pos + 1 = at[cur + 1] /\ cur # Len(entries)
        BY <3>1, <3>6, <3>7 DEF Stray
      <4>3. Pos' = at[cur' + 1] /\ cur' < Len(entries')
        BY <4>2, <1>1, <1>3, <1>4, <3>2, <3>4
      <4>. QED
        BY <4>1, <4>3, <1>4 DEF Place
    <3>8. CASE Kind(Pos + 1) # "local"
      <4>1. pc' = "raised"
        BY <3>4, <3>8, <1>1 DEF Got
      <4>2. cur = Len(entries) \/ (cur > 0 /\ ~Skippable(entries[cur]))
        BY <3>1, <3>2, <3>5, <3>8 DEF Stray
      <4>3. \A j \in 1..cur : ~entries[j].wanted
        <5>1. /\ \A j \in 1..(cur - 1) : ~entries[j].wanted
              /\ cur > 0 => ~entries[cur].wanted
          BY <1>1 DEF HInv, Handed, Taking
        <5>. QED
          BY <5>1, <3>2
      <4>4. ~Servable
        BY <4>2, <4>3, <3>2, Stuck DEF HInv
      <4>. QED
        BY <4>1, <4>4, <1>4 DEF Place
    <3>. QED
      BY <3>7, <3>8
  <2>. QED
    BY <2>1, <2>2
<1>. QED
  BY <1>3, <1>5, <1>6, <1>7 DEF HInv

LEMMA ReadHeadStep ==
    ASSUME HInv, ReadHead
    PROVE  HInv'
<1>1. /\ pc = "head" /\ Ready /\ buf' = Behind
      /\ UNCHANGED <<zip, conn, offset, eof, attempt, out, trouble>>
  BY DEF ReadHead
<1>2. Reading
  BY <1>1 DEF Ready
<1>3. /\ entries' = entries /\ file' = file /\ at' = at /\ Servable' = Servable
  BY <1>1 DEF entries, file, at, Servable, Wanted
<1>4. out = <<>> /\ (cur > 0 => ~entries[cur].wanted)
  BY <1>1 DEF HInv, Handed, Taking
<1>5. CASE Block = <<>>
  <2>1. pc' = "raised" /\ cur' = cur /\ left' = left
    BY <1>5 DEF ReadHead
  <2>2. Buffer' /\ Pos' = Pos + Len(Block) /\ buf' \in Seq(Int)
    BY <1>1, <1>2, <2>1, WalkTakes
  <2>3. HTypes'
    BY <1>1, <1>3, <2>1, <2>2 DEF HInv, HTypes
  <2>4. Handed'
    BY <1>1, <2>1, HandedStays DEF HInv
  <2>5. trouble
    <3>1. CASE Cut
      BY <3>1 DEF Cut
    <3>2. CASE ~Cut
      <4>1. cur < Len(entries) /\ Pos = at[cur + 1]
        BY <1>1, <3>2 DEF HInv, Place
      <4>2. Pos < Len(file)
        <5>1. /\ cur + 1 \in 1..Len(entries) /\ cur + 1 \in 1..(Len(entries) + 1)
              /\ (cur + 1) + 1 \in 1..(Len(entries) + 1)
          BY <4>1, Numbers
        <5>2. entries[cur + 1] \in Entry /\ Len(entries[cur + 1].trailer) \in Nat
          BY <5>1, Shape DEF HInv
        <5>3. entries[cur + 1].body \in Nat
          BY <5>2 DEF Entry
        <5>4. /\ at[(cur + 1) + 1] = at[cur + 1] + 2 + entries[cur + 1].body
                                       + Len(entries[cur + 1].trailer)
              /\ at[(cur + 1) + 1] \in 1..Len(file)
          BY <5>1, Shape DEF HInv
        <5>5. \A a, b, l, n \in Nat : a + 2 + b + l \in 1..n => a < n
          OBVIOUS
        <5>6. at[cur + 1] \in 1..Len(file) /\ Len(file) \in Nat
          BY <5>1, Shape DEF HInv
        <5>7. at[cur + 1] \in Nat
          BY <5>6
        <5>8. at[cur + 1] < Len(file)
          BY <5>2, <5>3, <5>4, <5>5, <5>6, <5>7
        <5>. QED
          BY <4>1, <5>8
      <4>. QED
        BY <1>1, <1>5, <3>2, <4>2, OneUnit
    <3>. QED
      BY <3>1, <3>2
  <2>6. Place'
    BY <1>1, <2>1, <2>5 DEF Place
  <2>. QED
    BY <2>2, <2>3, <2>4, <2>6 DEF HInv
<1>6. CASE Block # <<>>
  <2>1. ~Cut
    BY <1>6, CutRead
  <2>2. cur < Len(entries) /\ Pos = at[cur + 1]
    BY <1>1, <2>1 DEF HInv, Place
  <2>. DEFINE i == cur + 1
              e == entries[i]
  <2>3. i \in 1..Len(entries) /\ i \in 1..(Len(entries) + 1) /\ i - 1 = cur /\ i > 0
    BY <2>2, Numbers
  <2>4. /\ e \in Entry /\ WellFormed(e) /\ file[at[i] + 1].entry = i /\ at[i] \in 1..Len(file)
        /\ at[i] \in Nat
    <3>1. /\ e \in Entry /\ WellFormed(e) /\ at[i] \in 1..Len(file)
          /\ file[at[i] + 1] = [kind |-> "head", entry |-> i]
      BY <2>3, Shape DEF HInv
    <3>2. file[at[i] + 1].entry = i
      BY <3>1
    <3>3. at[i] \in Nat
      BY <3>1, Numbers
    <3>. QED
      BY <3>1, <3>2, <3>3
  <2>5. e.body \in Nat /\ e.comp \in Nat /\ e.method \in {"stored", "deflate", "other"}
    BY <2>4 DEF Entry
  <2>6. Len(Block) = 1 /\ buf[1] = at[i] + 1
    <3>1. Want = 1 /\ ~Discarding
      BY <1>1 DEF Want, Discarding
    <3>2. Len(buf) \in Nat /\ Len(Block) \in 0..Len(buf) /\ Len(Block) # 0
      BY <1>6, Numbers, BlockIs DEF HInv
    <3>3. Len(Block) = Least(1, Len(buf))
      BY <3>1, BlockIs DEF HInv
    <3>4. \A n \in Nat : Least(1, n) = 0 \/ (Least(1, n) = 1 /\ 1 \in 1..n)
      BY DEF Least
    <3>5. Len(Block) = 1 /\ 1 \in 1..Len(buf)
      BY <3>2, <3>3, <3>4
    <3>. QED
      BY <2>2, <3>5 DEF HInv, Buffer
  <2>7. cur' = i /\ left' = e.comp /\ pc' = BodyOf(e)
    BY <1>6, <2>4, <2>6 DEF ReadHead
  <2>. HIDE DEF i, e
  <2>8. pc' \in {"raised", "stream", "body"}
    BY <2>7 DEF BodyOf
  <2>9. Buffer' /\ Pos' = at[i] + 1 /\ buf' \in Seq(Int)
    <3>1. Buffer' /\ Pos' = Pos + Len(Block) /\ buf' \in Seq(Int)
      BY <1>1, <1>2, <2>8, WalkTakes
    <3>. QED
      BY <2>2, <2>6, <3>1 DEF i
  <2>10. HTypes'
    <3>1. cur' \in 0..Len(entries) /\ left' \in Nat
      BY <2>3, <2>5, <2>7, Numbers
    <3>. QED
      BY <1>1, <1>3, <2>8, <2>9, <3>1 DEF HInv, HTypes
  <2>11. \A j \in 1..cur : ~entries[j].wanted
    <3>1. \A j \in 1..(cur - 1) : ~entries[j].wanted
      BY DEF HInv, Handed
    <3>. QED
      BY <1>4, <3>1, Numbers
  <2>12. Handed'
    <3>1. \A j \in 1..(cur' - 1) : ~entries'[j].wanted
      BY <1>3, <2>3, <2>7, <2>11
    <3>2. out' = <<>> /\ Len(out') = 0
      BY <1>1, <1>4
    <3>. QED
      BY <2>3, <2>7, <2>8, <3>1, <3>2 DEF Handed
  <2>13. End' = at[i] + 1 + e.body /\ Taking' = e.wanted
    BY <1>3, <2>7 DEF End, Taking, e
  <2>14. ASSUME pc' = "body"
         PROVE  /\ e.comp = e.body /\ Pos' = End' - left' /\ left' <= e.body
                /\ Len(out') = e.body - left'
    <3>1. e.comp = e.body
      BY <2>4, <2>5, <2>7, <2>14 DEF BodyOf, WellFormed
    <3>2. \A a, b \in Nat : a + 1 = a + 1 + b - b /\ b <= b /\ 0 = b - b
      OBVIOUS
    <3>3. Len(out') = 0
      BY <1>1, <1>4
    <3>. QED
      BY <2>4, <2>5, <2>7, <2>9, <2>13, <3>1, <3>2, <3>3
  <2>15. ASSUME pc' = "stream"
         PROVE  /\ at[i] + 1 <= Pos' /\ Pos' < End' /\ Len(out') = Pos' - at[i] - 1
                /\ ~e.wanted => e.flag /\ e.comp = 0 /\ e.method = "deflate"
    <3>1. e.method = "deflate" /\ (~e.wanted => e.flag /\ e.comp = 0)
      BY <2>7, <2>15 DEF BodyOf
    <3>2. e.body > 0
      BY <2>4, <3>1 DEF WellFormed
    <3>3. \A a, b \in Nat : b > 0 => a + 1 <= a + 1 /\ a + 1 < a + 1 + b /\ 0 = (a + 1) - a - 1
      OBVIOUS
    <3>4. Len(out') = 0
      BY <1>1, <1>4
    <3>. QED
      BY <2>4, <2>5, <2>9, <2>13, <3>1, <3>2, <3>3, <3>4
  <2>16. ASSUME pc' = "raised"
         PROVE  ~Servable
    <3>1. e.method = "other" /\ (e.wanted \/ (e.flag /\ e.comp = 0))
      BY <2>5, <2>7, <2>16 DEF BodyOf
    <3>2. CASE e.wanted
      <4>1. SUFFICES ASSUME NEW k \in 1..Len(entries), Wanted(k), entries[k].method # "other"
                     PROVE  FALSE
        BY DEF Servable
      <4>2. ~(k < i)
        BY SMTT(30), <2>3, <2>11, <4>1, Numbers DEF Wanted
      <4>3. ~(i < k)
        <5>1. i < k => i \in 1..(k - 1)
          BY <2>3, Numbers
        <5>. QED
          BY <3>2, <4>1, <5>1 DEF Wanted, e
      <4>4. i = k
        BY <2>3, <4>2, <4>3, Numbers
      <4>. QED
        BY <3>1, <4>1, <4>4 DEF e
    <3>3. CASE ~e.wanted
      <4>1. ~Skippable(e)
        BY <3>1, <3>3 DEF Skippable
      <4>2. \A j \in 1..i : ~entries[j].wanted
        BY <2>3, <2>11, <3>3, Numbers DEF e
      <4>3. i \in 0..Len(entries)
        BY <2>3, Numbers
      <4>. QED
        BY <2>3, <4>1, <4>2, <4>3, Stuck DEF HInv, e
    <3>. QED
      BY <3>2, <3>3
  <2>17. Place'
    <3>1. CASE pc' = "body"
      BY <3>1, <1>3, <2>7, <2>13, <2>14 DEF Place, e
    <3>2. CASE pc' = "stream"
      <4>1. at'[cur'] = at[i] /\ entries'[cur'] = e
        BY <1>3, <2>7 DEF e
      <4>. QED
        BY <3>2, <4>1, <2>13, <2>15 DEF Place
    <3>3. CASE pc' = "raised"
      BY <3>3, <1>3, <2>16 DEF Place
    <3>. QED
      BY <2>8, <3>1, <3>2, <3>3
  <2>. QED
    BY <2>9, <2>10, <2>12, <2>17 DEF HInv
<1>. QED
  BY <1>5, <1>6

\* The step that is done with an entry.
LEMMA LeavesEntry ==
    ASSUME HInv, pc \in InEntry, pc' = NextEntry, UNCHANGED <<zip, cur, out>>,
           Taking => Cut' \/ Len(out) = entries[cur].body,
           ~Taking => Cut' \/ Pos' + 1 = at[cur + 1] \/ Stray(Pos' + 1)
    PROVE  Handed' /\ Place'
<1>1. /\ entries' = entries /\ file' = file /\ at' = at /\ Taking' = Taking
      /\ Stray(Pos + 1)' = Stray(Pos' + 1)
  BY DEF entries, file, at, Taking, Stray, Kind
<1>2. cur > 0 /\ (out # <<>> => Taking) /\ \A j \in 1..(cur - 1) : ~entries[j].wanted
  BY DEF HInv, Handed
<1>3. CASE Taking
  <2>1. pc' = "done"
    BY <1>3 DEF NextEntry
  <2>2. Handed'
    BY <1>1, <1>2, <1>3, <2>1 DEF HInv, Handed
  <2>3. Place'
    BY <1>1, <1>3, <2>1 DEF Place, Cut
  <2>. QED
    BY <2>2, <2>3
<1>4. CASE ~Taking
  <2>1. pc' = "sig"
    BY <1>4 DEF NextEntry
  <2>2. Handed'
    BY <1>1, <1>2, <1>4, <2>1 DEF HInv, Handed, InEntry
  <2>3. Place'
    BY <1>1, <1>4, <2>1 DEF Place
  <2>. QED
    BY <2>2, <2>3
<1>. QED
  BY <1>3, <1>4

\* The step within an entry.
LEMMA StaysInEntry ==
    ASSUME HInv, pc \in InEntry, pc' \in InEntry \ {"done"}, UNCHANGED <<zip, cur, out>>
    PROVE  Handed'
<1>1. entries' = entries /\ at' = at /\ Taking' = Taking
  BY DEF entries, at, Taking
<1>. QED
  BY <1>1 DEF HInv, Handed, InEntry

\* An entry without a descriptor.
LEMMA NoDescriptor ==
    ASSUME HInv, cur > 0, ~entries[cur].flag
    PROVE  at[cur + 1] = End + 1
<1>1. /\ WellFormed(entries[cur]) /\ Len(entries[cur].trailer) \in Nat
      /\ at[cur + 1] = End + 1 + Len(entries[cur].trailer)
  BY AfterData
<1>2. entries[cur].trailer = <<>>
  BY <1>1 DEF WellFormed
<1>3. Len(entries[cur].trailer) = 0 /\ End + 1 \in Nat
  BY SMTT(30), <1>2, Numbers
<1>4. \A a \in Nat : a + 0 = a
  OBVIOUS
<1>. QED
  BY <1>1, <1>3, <1>4

\* The last unit of the data lies before the end of the file.
LEMMA EndInFile ==
    ASSUME HInv, cur > 0
    PROVE  End < Len(file)
<1>1. /\ Len(entries[cur].trailer) \in Nat /\ at[cur + 1] = End + 1 + Len(entries[cur].trailer)
      /\ at[cur + 1] \in 1..Len(file)
  BY AfterData
<1>2. \A a, l, n \in Nat : a + 1 + l \in 1..n => a < n
  OBVIOUS
<1>3. End \in Nat /\ Len(file) \in Nat
  BY Numbers
<1>. QED
  BY <1>1, <1>2, <1>3

LEMMA ReadBodyStep ==
    ASSUME HInv, ReadBody
    PROVE  HInv'
<1>1. /\ pc = "body" /\ Ready /\ pc \in InEntry
      /\ UNCHANGED <<zip, conn, offset, eof, attempt, cur, trouble>>
  BY DEF ReadBody, InEntry
<1>2. Reading /\ cur > 0
  BY <1>1 DEF Ready, HInv, Handed
<1>3. /\ entries' = entries /\ file' = file /\ at' = at
      /\ Taking' = Taking /\ End' = End
  BY <1>1 DEF entries, file, at, Taking, End
<1>4. /\ entries[cur].comp = entries[cur].body
      /\ \/ Cut
         \/ /\ Pos = End - left /\ left <= entries[cur].body
            /\ Taking => Len(out) = entries[cur].body - left
  BY <1>1 DEF HInv, Place
<1>5. CASE Block = <<>>
  <2>1. /\ pc' = IF entries[cur].flag THEN "desc" ELSE NextEntry
        /\ UNCHANGED <<buf, left, out>>
    BY <1>5 DEF ReadBody
  <2>2. pc' \in {"desc", "done", "sig"}
    BY <2>1 DEF NextEntry
  <2>3. Buffer' /\ Pos' = Pos /\ buf' \in Seq(Int)
    BY <1>1, <1>2, <2>1, <2>2, WalkLeaves
  <2>4. HTypes'
    BY <1>1, <1>3, <2>1, <2>2, <2>3 DEF HInv, HTypes
  <2>5. Cut' = Cut
    BY <1>1, <2>1 DEF Cut
  <2>6. Cut \/ (Pos = End /\ (Taking => Len(out) = entries[cur].body))
    <3>1. SUFFICES ASSUME ~Cut
                   PROVE  Pos = End /\ (Taking => Len(out) = entries[cur].body)
      OBVIOUS
    <3>2. \A a, n \in Nat : a - 0 = a
      OBVIOUS
    <3>3. CASE left = 0
      BY <1>4, <3>1, <3>2, <3>3, <1>2, Numbers
    <3>4. CASE left # 0
      <4>1. Want # 0
        BY <1>1, <3>4, Numbers DEF Want, Least
      <4>2. Pos = Len(file)
        BY <1>1, <1>5, <3>1, <4>1, EmptyRead
      <4>3. \A a, l, n \in Nat : a < n => a - l # n
        OBVIOUS
      <4>. QED
        BY <1>2, <1>4, <3>1, <4>2, <4>3, EndInFile, Numbers
    <3>. QED
      BY <3>3, <3>4
  <2>7. CASE entries[cur].flag
    <3>1. pc' = "desc"
      BY <2>1, <2>7
    <3>2. Handed'
      BY <1>1, <2>1, <3>1, StaysInEntry DEF InEntry
    <3>3. Place'
      BY <1>1, <1>3, <1>4, <2>1, <2>3, <2>5, <2>6, <2>7, <3>1 DEF Place
    <3>. QED
      BY <2>3, <2>4, <3>2, <3>3 DEF HInv
  <2>8. CASE ~entries[cur].flag
    <3>1. pc' = NextEntry
      BY <2>1, <2>8
    <3>2. Pos = End => Pos' + 1 = at[cur + 1]
      BY <1>2, <2>3, <2>8, NoDescriptor
    <3>3. Handed' /\ Place'
      BY <1>1, <2>1, <2>5, <2>6, <3>1, <3>2, LeavesEntry
    <3>. QED
      BY <2>3, <2>4, <3>3 DEF HInv
  <2>. QED
    BY <2>7, <2>8
<1>6. CASE Block # <<>>
  <2>1. buf' = Behind /\ left' = left - Len(Block) /\ out' = HandOn(Block) /\ pc' = "body"
    BY <1>1, <1>6 DEF ReadBody, Remaining
  <2>2. ~Cut
    BY <1>6, CutRead
  <2>3. Buffer' /\ Pos' = Pos + Len(Block) /\ buf' \in Seq(Int)
    BY <1>1, <1>2, <2>1, WalkTakes
  <2>4. /\ Len(Block) \in Nat /\ Len(Block) <= left /\ left \in Nat /\ Block \in Seq(Int)
        /\ \A j \in 1..Len(Block) : Block[j] = Pos + j
    <3>1. /\ Len(Block) = Least(IF Discarding THEN left ELSE Want, Len(buf))
          /\ Len(Block) \in 0..Len(buf) /\ Block \in Seq(Int)
          /\ \A j \in 1..Len(Block) : Block[j] = Pos + j
      BY BlockIs DEF HInv
    <3>2. Want = Least(Chunk, left)
      BY <1>1 DEF Want
    <3>3. \A c, l, n \in Nat : Least(IF Discarding THEN l ELSE Least(c, l), n) <= l
      BY DEF Least
    <3>. QED
      BY <3>1, <3>2, <3>3, Numbers
  <2>5. left' \in Nat /\ left' <= entries[cur].body
    BY SMTT(30), <1>2, <1>4, <2>1, <2>2, <2>4, Numbers
  <2>6. Pos' = End' - left'
    <3>1. \A a, l, n \in Int : (a - l) + n = a - (l - n)
      OBVIOUS
    <3>. QED
      BY SMTT(30), <1>2, <1>3, <1>4, <2>1, <2>2, <2>3, <2>4, <3>1, Numbers
  <2>7. /\ out' \in Seq(Int) /\ \A j \in 1..Len(out') : out'[j] = at[cur] + 1 + j
        /\ Taking => Len(out') = entries[cur].body - left'
    <3>1. CASE Taking
      <4>1. out' = out \o Block
        BY <2>1, <3>1 DEF HandOn
      <4>2. Pos = at[cur] + 1 + Len(out)
        <5>1. \A a, b, l \in Nat : (a + 1 + b) - l = a + 1 + (b - l)
          OBVIOUS
        <5>2. at[cur] \in Nat /\ entries[cur].body \in Nat /\ End = at[cur] + 1 + entries[cur].body
          BY <1>2, Numbers
        <5>. QED
          BY SMTT(30), <1>4, <2>2, <2>4, <3>1, <5>1, <5>2
      <4>3. /\ out \o Block \in Seq(Int) /\ Len(out \o Block) = Len(out) + Len(Block)
            /\ \A j \in 1..Len(out \o Block) : (out \o Block)[j] = at[cur] + 1 + j
        BY <1>2, <2>4, <4>2, HandsOn
      <4>4. \A b, l, n \in Int : (b - l) + n = b - (l - n)
        OBVIOUS
      <4>5. Len(out) = entries[cur].body - left /\ entries[cur].body \in Int
        BY <1>2, <1>4, <2>2, <3>1, Numbers
      <4>6. (entries[cur].body - left) + Len(Block) = entries[cur].body - left'
        BY <2>1, <2>4, <4>4, <4>5
      <4>. QED
        BY <4>1, <4>3, <4>5, <4>6
    <3>2. CASE ~Taking
      BY <2>1, <3>2 DEF HandOn, HInv, HTypes, Handed
    <3>. QED
      BY <3>1, <3>2
  <2>8. HTypes'
    BY <1>1, <1>3, <2>1, <2>3, <2>5, <2>7 DEF HInv, HTypes
  <2>9. Handed'
    <3>1. out' # <<>> => Taking /\ Len(out') <= entries[cur].body
      <4>1. CASE Taking
        BY SMTT(30), <1>2, <2>5, <2>7, <4>1, Numbers
      <4>2. CASE ~Taking
        BY <2>1, <4>2 DEF HandOn, HInv, Handed
      <4>. QED
        BY <4>1, <4>2
    <3>2. \A j \in 1..(cur - 1) : ~entries[j].wanted
      BY DEF HInv, Handed
    <3>. QED
      BY <1>1, <1>2, <1>3, <2>1, <2>7, <3>1, <3>2 DEF Handed
  <2>10. Place'
    BY <1>1, <1>3, <1>4, <2>1, <2>5, <2>6, <2>7 DEF Place
  <2>. QED
    BY <2>3, <2>8, <2>9, <2>10 DEF HInv
<1>. QED
  BY <1>5, <1>6

\* What the decoder uses of a block: as much of it as is data of the entry.
LEMMA DecoderStops ==
    ASSUME HInv, cur > 0, at[cur] + 1 <= Pos, Pos < End, NEW n \in 0..Len(Block),
           \A j \in 1..n : IsData(Block[j]),
           n < Len(Block) => ~IsData(Block[n + 1]),
           Block # <<>>
    PROVE  /\ Pos + n <= End /\ n > 0
           /\ Pos + n < End => n = Len(Block)
           /\ IsData(Block[n] + 1) <=> Pos + n < End
<1>1. /\ Len(Block) \in Nat /\ Len(Block) # 0 /\ Pos \in Nat /\ End \in Nat
      /\ at[cur] \in Nat /\ n \in Nat
  <2>1. Len(Block) \in 0..Len(buf) /\ Len(buf) \in Nat /\ Len(Block) # 0
    BY Numbers, BlockIs DEF HInv
  <2>2. Pos \in Nat /\ End \in Nat /\ at[cur] \in Nat
    BY Numbers
  <2>. QED
    BY <2>1, <2>2
<1>2. \A j \in 1..Len(Block) : Block[j] = Pos + j
  BY BlockIs DEF HInv
<1>3. \A p \in (Pos + 1)..End : IsData(p)
  <2>1. \A p \in (at[cur] + 2)..End : Kind(p) = "body"
    BY AfterData
  <2>2. \A a, m, k \in Nat : a + 1 <= m => \A p \in (m + 1)..k : p \in (a + 2)..k
    OBVIOUS
  <2>. QED
    BY <1>1, <2>1, <2>2 DEF IsData
<1>4. ~IsData(End + 1)
  BY AfterData DEF IsData
<1>5. Pos + n <= End
  <2>1. SUFFICES ASSUME Pos + n > End PROVE FALSE
    BY <1>1
  <2>2. /\ End + 1 - Pos \in 1..n /\ End + 1 - Pos \in 1..Len(Block)
        /\ Pos + (End + 1 - Pos) = End + 1
    <3>1. \A m, k, i, b \in Nat : m < k /\ m + i > k /\ i <= b =>
             k + 1 - m \in 1..i /\ k + 1 - m \in 1..b /\ m + (k + 1 - m) = k + 1
      OBVIOUS
    <3>. QED
      BY <1>1, <2>1, <3>1
  <2>. QED
    BY <1>2, <1>4, <2>2
<1>6. Pos + n < End => n = Len(Block)
  <2>1. SUFFICES ASSUME Pos + n < End, n # Len(Block) PROVE FALSE
    OBVIOUS
  <2>2. n + 1 \in 1..Len(Block) /\ n < Len(Block) /\ Pos + (n + 1) \in (Pos + 1)..End
    BY <1>1, <2>1
  <2>. QED
    BY <1>2, <1>3, <2>2
<1>7. n > 0
  BY <1>1, <1>6
<1>8. IsData(Block[n] + 1) <=> Pos + n < End
  <2>1. n \in 1..Len(Block) /\ Block[n] = Pos + n
    BY <1>1, <1>2, <1>7
  <2>2. CASE Pos + n < End
    <3>1. Pos + n + 1 \in (Pos + 1)..End
      BY <1>1, <2>2
    <3>. QED
      BY <1>3, <2>1, <2>2, <3>1
  <2>3. CASE ~(Pos + n < End)
    <3>1. Pos + n = End
      BY <1>1, <1>5, <2>3
    <3>. QED
      BY <1>4, <2>1, <2>3, <3>1
  <2>. QED
    BY <2>2, <2>3
<1>. QED
  BY <1>5, <1>6, <1>7, <1>8

\* What is put back goes before the rest of the buffer.
LEMMA PutBack ==
    ASSUME HInv, NEW n \in 0..Len(Block)
    PROVE  LET b == SubSeq(Block, n + 1, Len(Block)) \o Behind IN
           /\ b \in Seq(Int) /\ Len(b) = Len(buf) - n /\ n \in 0..Len(buf)
           /\ \A j \in 1..(Len(buf) - n) : b[j] = Pos + n + j
           /\ SubSeq(Block, 1, n) \in Seq(Int) /\ Len(SubSeq(Block, 1, n)) = n
           /\ \A j \in 1..n : SubSeq(Block, 1, n)[j] = Pos + j
<1>. DEFINE m == Len(Block)
            k == Len(buf)
            u == SubSeq(Block, n + 1, m)
            d == SubSeq(Block, 1, n)
            b == u \o Behind
<1>1. /\ m \in 0..k /\ k \in Nat /\ Block \in Seq(Int) /\ Behind \in Seq(Int)
      /\ Len(Behind) = k - m /\ Pos \in Int
      /\ \A j \in 1..m : Block[j] = Pos + j
      /\ \A j \in 1..Len(Behind) : Behind[j] = Pos + m + j
  BY BlockIs, Numbers DEF HInv
<1>2. \A j \in 1..m : Block[j] \in Int
  BY <1>1
<1>3. /\ u \in Seq(Int) /\ Len(u) = (IF n + 1 <= m THEN m - (n + 1) + 1 ELSE 0)
      /\ \A j \in 1..(m - (n + 1) + 1) : u[j] = Block[(n + 1) + j - 1]
  <2>1. n + 1 \in Int /\ m \in Int /\ \A j \in (n + 1)..m : Block[j] \in Int
    BY <1>1, <1>2
  <2>. QED
    BY <2>1, SubSeqProperties
<1>4. /\ d \in Seq(Int) /\ Len(d) = (IF 1 <= n THEN n - 1 + 1 ELSE 0)
      /\ \A j \in 1..(n - 1 + 1) : d[j] = Block[1 + j - 1]
  <2>1. 1 \in Int /\ n \in Int /\ \A j \in 1..n : Block[j] \in Int
    BY <1>1, <1>2
  <2>. QED
    BY <2>1, SubSeqProperties
<1>. HIDE DEF m, k, u, d
<1>5. n \in 0..m
  BY DEF m
<1>6. Len(u) = m - n /\ \A j \in 1..(m - n) : u[j] = Pos + n + j
  <2>1. Len(u) = m - n
    BY <1>1, <1>3, <1>5
  <2>2. ASSUME NEW j \in 1..(m - n) PROVE u[j] = Pos + n + j
    <3>1. j \in 1..(m - (n + 1) + 1) /\ (n + 1) + j - 1 = n + j /\ n + j \in 1..m
      BY <1>1, <1>5
    <3>2. u[j] = Pos + (n + j)
      BY <1>1, <1>3, <3>1
    <3>. QED
      BY <1>1, <1>5, <3>2
  <2>. QED
    BY <2>1, <2>2
<1>7. Len(d) = n /\ \A j \in 1..n : d[j] = Pos + j
  <2>1. Len(d) = n
    BY <1>4, <1>5
  <2>2. ASSUME NEW j \in 1..n PROVE d[j] = Pos + j
    <3>1. j \in 1..(n - 1 + 1) /\ 1 + j - 1 = j /\ j \in 1..m
      BY <1>1, <1>5
    <3>. QED
      BY <1>1, <1>4, <3>1
  <2>. QED
    BY <2>1, <2>2
<1>8. /\ b \in Seq(Int) /\ Len(b) = Len(u) + Len(Behind)
      /\ \A j \in 1..(Len(u) + Len(Behind)) :
            b[j] = IF j <= Len(u) THEN u[j] ELSE Behind[j - Len(u)]
  BY <1>1, <1>3, ConcatProperties
<1>. HIDE DEF b
<1>9. Len(b) = k - n /\ Len(u) + Len(Behind) = k - n /\ n \in 0..k
  BY <1>1, <1>5, <1>6, <1>8
<1>10. ASSUME NEW j \in 1..(k - n) PROVE b[j] = Pos + n + j
  <2>1. CASE j <= m - n
    <3>1. j \in 1..(m - n)
      BY <1>1, <1>5, <2>1
    <3>. QED
      BY <1>6, <1>8, <1>9, <2>1, <3>1
  <2>2. CASE ~(j <= m - n)
    <3>1. j - (m - n) \in 1..(k - m) /\ Pos + m + (j - (m - n)) = Pos + n + j
      BY <1>1, <1>5, <2>2
    <3>2. b[j] = Behind[j - (m - n)]
      BY <1>6, <1>8, <1>9, <2>2
    <3>. QED
      BY <1>1, <3>1, <3>2
  <2>. QED
    BY <2>1, <2>2
<1>. QED
  BY <1>3, <1>4, <1>7, <1>8, <1>9, <1>10 DEF b, u, d, m, k

LEMMA ReadStreamStep ==
    ASSUME HInv, ReadStream
    PROVE  HInv'
<1>1. /\ pc = "stream" /\ Ready /\ pc \in InEntry
      /\ UNCHANGED <<zip, conn, offset, eof, attempt, cur, left, trouble>>
  BY DEF ReadStream, InEntry
<1>. DEFINE last(n) == n > 0 /\ ~IsData(Block[n] + 1)
<1>2. PICK n \in 0..Len(Block) :
        /\ \A j \in 1..n : IsData(Block[j])
        /\ n < Len(Block) => ~IsData(Block[n + 1])
        /\ out' = HandOn(SubSeq(Block, 1, n))
        /\ buf' = SubSeq(Block, n + 1, Len(Block)) \o Behind
        /\ pc' = IF Block # <<>> /\ ~last(n) THEN "stream"
                 ELSE IF entries[cur].flag THEN "peek" ELSE NextEntry
  BY DEF ReadStream
<1>3. Reading /\ cur > 0
  BY <1>1 DEF Ready, HInv, Handed
<1>4. /\ entries' = entries /\ file' = file /\ at' = at
      /\ Taking' = Taking /\ End' = End
  BY <1>1 DEF entries, file, at, Taking, End
<1>. DEFINE d == SubSeq(Block, 1, n)
<1>5. /\ buf' \in Seq(Int) /\ Len(buf') = Len(buf) - n /\ n \in 0..Len(buf)
      /\ \A j \in 1..(Len(buf) - n) : buf'[j] = Pos + n + j
      /\ d \in Seq(Int) /\ Len(d) = n /\ \A j \in 1..n : d[j] = Pos + j
  BY <1>2, PutBack
<1>. HIDE DEF d
<1>6. pc' \in {"stream", "peek", "done", "sig"}
  BY <1>2 DEF NextEntry
<1>7. Buffer' /\ Pos' = Pos + n
  BY <1>1, <1>3, <1>5, <1>6, TakesUnits DEF HInv, Reading
<1>8. ~Taking => entries[cur].flag /\ entries[cur].comp = 0 /\ entries[cur].method = "deflate"
  BY <1>1 DEF HInv, Place
<1>9. CASE Cut
  <2>1. Block = <<>> /\ buf = <<>> /\ n = 0 /\ Len(buf) = 0
    BY <1>2, <1>9, CutRead, Numbers
  <2>2. buf' = <<>>
    BY <1>5, <2>1, EmptySeq
  <2>3. out' = out
    <3>1. d = <<>>
      BY <1>5, <2>1, EmptySeq
    <3>2. out \in Seq(Int)
      BY DEF HInv, HTypes
    <3>3. out \o <<>> = out
      BY <3>2, ConcatEmptySeq
    <3>. QED
      BY <1>2, <3>1, <3>3 DEF HandOn, d
  <2>4. Cut'
    BY <1>1, <1>9, <2>2 DEF Cut
  <2>5. HTypes'
    BY <1>1, <1>4, <1>5, <1>6, <2>3 DEF HInv, HTypes
  <2>6. CASE entries[cur].flag
    <3>1. pc' = "peek"
      BY <1>2, <2>1, <2>6
    <3>2. Handed'
      BY <1>1, <2>3, <3>1, StaysInEntry DEF InEntry
    <3>3. Place'
      BY <1>1, <1>4, <1>8, <2>4, <2>6, <3>1 DEF Place
    <3>. QED
      BY <1>7, <2>5, <3>2, <3>3 DEF HInv
  <2>7. CASE ~entries[cur].flag
    <3>1. pc' = NextEntry
      BY <1>2, <2>1, <2>7
    <3>2. Handed' /\ Place'
      BY <1>1, <2>3, <2>4, <3>1, LeavesEntry
    <3>. QED
      BY <1>7, <2>5, <3>2 DEF HInv
  <2>. QED
    BY <2>6, <2>7
<1>10. CASE ~Cut
  <2>1. at[cur] + 1 <= Pos /\ Pos < End /\ (Taking => Len(out) = Pos - at[cur] - 1)
    BY <1>1, <1>10 DEF HInv, Place
  <2>2. Block # <<>>
    <3>1. SUFFICES ASSUME Block = <<>> PROVE FALSE
      OBVIOUS
    <3>2. Want # 0
      BY <1>1, Numbers DEF Want
    <3>3. Pos = Len(file)
      BY <1>1, <1>10, <3>1, <3>2, EmptyRead
    <3>. QED
      BY <1>3, <2>1, <3>3, EndInFile, Numbers
  <2>3. /\ Pos + n <= End /\ n > 0
        /\ IsData(Block[n] + 1) <=> Pos + n < End
    BY <1>2, <1>3, <2>1, <2>2, DecoderStops
  <2>4. /\ Pos' < End => pc' = "stream"
        /\ ~(Pos' < End) => pc' = (IF entries[cur].flag THEN "peek" ELSE NextEntry)
    BY <1>2, <1>7, <2>2, <2>3
  <2>5. at[cur] \in Nat /\ Pos \in Nat /\ End \in Nat /\ n \in Nat /\ Len(out) \in Nat
    BY SMTT(30), <1>3, <1>5, Numbers
  <2>6. at[cur] + 1 <= Pos' /\ Pos' <= End /\ Pos' \in Nat
    BY <1>7, <2>1, <2>3, <2>5
  <2>7. /\ out' \in Seq(Int) /\ \A j \in 1..Len(out') : out'[j] = at[cur] + 1 + j
        /\ Taking => Len(out') = Pos' - at[cur] - 1
    <3>1. CASE Taking
      <4>1. out' = out \o d
        BY <1>2, <3>1 DEF HandOn, d
      <4>2. Pos = at[cur] + 1 + Len(out)
        BY <2>1, <2>5, <3>1
      <4>3. /\ out \o d \in Seq(Int) /\ Len(out \o d) = Len(out) + n
            /\ \A j \in 1..Len(out \o d) : (out \o d)[j] = at[cur] + 1 + j
        BY <1>3, <1>5, <4>2, HandsOn
      <4>4. Len(out) + n = Pos' - at[cur] - 1
        BY SMTT(30), <1>7, <2>1, <2>5, <3>1
      <4>. QED
        BY <4>1, <4>3, <4>4
    <3>2. CASE ~Taking
      BY <1>2, <3>2 DEF HandOn, HInv, HTypes, Handed
    <3>. QED
      BY <3>1, <3>2
  <2>8. HTypes'
    BY <1>1, <1>4, <1>5, <1>6, <2>7 DEF HInv, HTypes
  <2>9. /\ out' # <<>> => Taking /\ Len(out') <= entries[cur].body
        /\ Taking /\ Pos' = End => Len(out') = entries[cur].body
    <3>1. CASE Taking
      <4>1. End = at[cur] + 1 + entries[cur].body /\ entries[cur].body \in Nat
        BY <1>3, Numbers
      <4>2. \A a, b, q \in Nat : q <= a + 1 + b =>
               /\ q - a - 1 <= b
               /\ q = a + 1 + b => q - a - 1 = b
        OBVIOUS
      <4>3. Pos' - at[cur] - 1 <= entries[cur].body
        BY <2>5, <2>6, <4>1, <4>2
      <4>4. Pos' = End => Pos' - at[cur] - 1 = entries[cur].body
        BY <2>5, <2>6, <4>1, <4>2
      <4>. QED
        BY <2>7, <3>1, <4>3, <4>4
    <3>2. CASE ~Taking
      BY <1>2, <3>2 DEF HandOn, HInv, Handed
    <3>. QED
      BY <3>1, <3>2
  <2>10. \A j \in 1..(cur - 1) : ~entries[j].wanted
    BY DEF HInv, Handed
  <2>11. Handed'
    <3>1. pc' = "done" => Taking
      BY <1>2 DEF NextEntry
    <3>2. pc' = "sig" => ~Taking /\ out' = <<>>
      BY <1>2, <2>9 DEF NextEntry
    <3>. QED
      BY <1>1, <1>3, <1>4, <1>6, <2>7, <2>9, <2>10, <3>1, <3>2 DEF Handed
  <2>12. Place'
    <3>1. CASE Pos' < End
      <4>1. pc' = "stream"
        BY <2>4, <3>1
      <4>. QED
        BY <1>1, <1>4, <1>8, <2>6, <2>7, <3>1, <4>1 DEF Place
    <3>2. CASE ~(Pos' < End)
      <4>1. Pos' = End
        BY <2>5, <2>6, <3>2
      <4>2. CASE entries[cur].flag
        <5>1. pc' = "peek"
          BY <2>4, <3>2, <4>2
        <5>. QED
          BY <1>1, <1>4, <1>8, <2>9, <4>1, <4>2, <5>1 DEF Place
      <4>3. CASE ~entries[cur].flag
        <5>1. Taking /\ pc' = "done"
          BY <1>8, <2>4, <3>2, <4>3 DEF NextEntry
        <5>. QED
          BY <1>1, <1>4, <2>9, <4>1, <5>1 DEF Place
      <4>. QED
        BY <4>2, <4>3
    <3>. QED
      BY <3>1, <3>2
  <2>. QED
    BY <1>7, <2>8, <2>11, <2>12 DEF HInv
<1>. QED
  BY <1>9, <1>10

LEMMA BadDataStep ==
    ASSUME HInv, BadData
    PROVE  HInv'
<1>1. /\ Reading /\ pc' = "raised" /\ trouble' = TRUE
      /\ UNCHANGED <<zip, conn, buf, offset, eof, attempt, cur, left, out>>
  BY DEF BadData, Ready, streamVars, walkVars
<1>2. entries' = entries /\ file' = file /\ Pos' = Pos
  BY <1>1 DEF entries, file, Pos
<1>3. HTypes'
  BY <1>1, <1>2 DEF HInv, HTypes
<1>4. Buffer'
  BY <1>1, <1>2 DEF HInv, Buffer
<1>5. Handed'
  BY <1>1, HandedStays DEF HInv
<1>6. Place'
  BY <1>1 DEF Place
<1>. QED
  BY <1>3, <1>4, <1>5, <1>6 DEF HInv

\* What follows the data of an entry with a descriptor: where the walk is when it
\* has skipped as much as it takes the descriptor for.
LEMMA DescriptorIs ==
    ASSUME HInv, cur > 0, entries[cur].flag
    PROVE  LET l == Len(entries[cur].trailer) IN
           /\ l \in {3, 4, 5, 6} /\ End + 1 + l = at[cur + 1]
           /\ Kind(End + 1) = (IF l \in {4, 6} THEN "dsig" ELSE "desc")
           /\ l = 5 => Stray(End + 4)
           /\ l = 6 => Stray(End + 5)
           /\ l \in {3, 5} /\ entries[cur].comp = 0 /\ entries[cur].method = "deflate"
                 => Stray(End + 1)
<1>. DEFINE e == entries[cur]
            l == Len(e.trailer)
<1>1. /\ e \in Entry /\ WellFormed(e) /\ l \in Nat
      /\ at[cur + 1] = End + 1 + l /\ at[cur + 1] \in 1..Len(file)
      /\ \A j \in 1..l : Kind(End + j) = e.trailer[j]
  BY AfterData
<1>2. /\ l \in {3, 4, 5, 6}
      /\ l \in {3, 5} => \A j \in 1..l : e.trailer[j] = "desc"
      /\ l \in {4, 6} => \A j \in 1..l : e.trailer[j] = (IF j = 1 THEN "dsig" ELSE "desc")
  BY <1>1, TrailerForm
<1>3. /\ ~(l \in {3, 4}) => ~Skippable(e)
      /\ l # 4 /\ e.comp = 0 /\ e.method = "deflate" => ~Skippable(e)
  BY DEF Skippable
<1>. HIDE DEF l, e
<1>4. End \in Nat /\ Len(file) \in Nat
  BY Numbers
<1>5. \A j \in 1..l : End + j \in 1..Len(file)
  <2>1. \A a, m, n \in Nat : a + 1 + m \in 1..n => \A j \in 1..m : a + j \in 1..n
    OBVIOUS
  <2>. QED
    BY <1>1, <1>4, <2>1
<1>6. Kind(End + 1) = (IF l \in {4, 6} THEN "dsig" ELSE "desc")
  <2>1. 1 \in 1..l
    BY <1>2
  <2>2. Kind(End + 1) = e.trailer[1]
    BY <1>1, <2>1
  <2>. QED
    BY <1>2, <2>1, <2>2
<1>7. l = 5 => Stray(End + 4)
  <2>1. SUFFICES ASSUME l = 5 PROVE Stray(End + 4)
    OBVIOUS
  <2>2. 4 \in 1..l /\ l \in {3, 5} /\ ~(l \in {3, 4})
    BY <2>1
  <2>. QED
    BY <1>1, <1>2, <1>3, <1>5, <2>2 DEF Stray, e
<1>8. l = 6 => Stray(End + 5)
  <2>1. SUFFICES ASSUME l = 6 PROVE Stray(End + 5)
    OBVIOUS
  <2>2. 5 \in 1..l /\ l \in {4, 6} /\ ~(l \in {3, 4})
    BY <2>1
  <2>. QED
    BY <1>1, <1>2, <1>3, <1>5, <2>2 DEF Stray, e
<1>9. l \in {3, 5} /\ e.comp = 0 /\ e.method = "deflate" => Stray(End + 1)
  <2>1. SUFFICES ASSUME l \in {3, 5}, e.comp = 0, e.method = "deflate" PROVE Stray(End + 1)
    OBVIOUS
  <2>2. 1 \in 1..l /\ l # 4
    BY <2>1
  <2>. QED
    BY <1>1, <1>2, <1>3, <1>5, <2>1, <2>2 DEF Stray, e
<1>. QED
  BY <1>1, <1>2, <1>6, <1>7, <1>8, <1>9 DEF l, e

\* The step into the rest of a descriptor.
LEMMA EntersRest ==
    ASSUME HInv, pc \in {"desc", "peek"}, ~Cut, buf' = Behind, pc' = "descrest",
           left' = RestOfDescriptor, UNCHANGED <<zip, cur, out>>, Pos' = Pos + Len(Block),
           Ready
    PROVE  Handed' /\ Place'
<1>1. cur > 0 /\ pc \in InEntry /\ entries[cur].flag /\ Pos = End
      /\ (Taking => Len(out) = entries[cur].body)
  BY DEF HInv, Handed, Place, InEntry
<1>2. /\ entries' = entries /\ file' = file /\ at' = at /\ Taking' = Taking
  BY DEF entries, file, at, Taking
<1>3. Block # <<>> /\ Len(Block) = 1 /\ buf[1] = End + 1 /\ Pos' = End + 1
  BY <1>1, EndInFile, OneUnit, Numbers
<1>. DEFINE l == Len(entries[cur].trailer)
<1>4. /\ l \in {3, 4, 5, 6} /\ End + 1 + l = at[cur + 1]
      /\ Kind(End + 1) = (IF l \in {4, 6} THEN "dsig" ELSE "desc")
      /\ l = 5 => Stray(End + 4)
      /\ l = 6 => Stray(End + 5)
  BY <1>1, DescriptorIs
<1>5. left' = IF l \in {4, 6} THEN 3 ELSE 2
  BY <1>3, <1>4 DEF RestOfDescriptor, Got
<1>. HIDE DEF l
<1>6. Pos' + left' + 1 = at[cur + 1] \/ Stray(Pos' + left' + 1)
  <2>1. End \in Nat
    BY <1>1, Numbers
  <2>2. CASE l = 3
    <3>1. left' = 2
      BY <1>5, <2>2
    <3>. QED
      BY <1>3, <1>4, <2>1, <2>2, <3>1
  <2>3. CASE l = 4
    <3>1. left' = 3
      BY <1>5, <2>3
    <3>. QED
      BY <1>3, <1>4, <2>1, <2>3, <3>1
  <2>4. CASE l = 5
    <3>1. Pos' + left' + 1 = End + 4
      BY <1>3, <1>5, <2>1, <2>4
    <3>. QED
      BY <1>4, <2>4, <3>1
  <2>5. CASE l = 6
    <3>1. Pos' + left' + 1 = End + 5
      BY <1>3, <1>5, <2>1, <2>5
    <3>. QED
      BY <1>4, <2>5, <3>1
  <2>. QED
    BY <1>4, <2>2, <2>3, <2>4, <2>5
<1>7. Stray(Pos + left + 1)' = Stray(Pos' + left' + 1)
  BY <1>2 DEF Stray, Kind
<1>8. Handed'
  BY <1>1, StaysInEntry DEF InEntry
<1>9. Place'
  BY <1>1, <1>2, <1>6, <1>7 DEF Place
<1>. QED
  BY <1>8, <1>9

LEMMA SkipDescriptorStep ==
    ASSUME HInv, SkipDescriptor
    PROVE  HInv'
<1>1. /\ pc = "desc" /\ Ready /\ buf' = Behind /\ left' = RestOfDescriptor /\ pc' = "descrest"
      /\ UNCHANGED <<zip, conn, offset, eof, attempt, cur, out, trouble>>
  BY DEF SkipDescriptor
<1>2. Reading
  BY <1>1 DEF Ready
<1>3. Buffer' /\ Pos' = Pos + Len(Block) /\ buf' \in Seq(Int)
  BY <1>1, <1>2, WalkTakes
<1>4. HTypes'
  <2>1. left' \in Nat
    BY <1>1 DEF RestOfDescriptor
  <2>2. entries' = entries /\ file' = file
    BY <1>1 DEF entries, file
  <2>. QED
    BY <1>1, <1>3, <2>1, <2>2 DEF HInv, HTypes
<1>5. Handed' /\ Place'
  <2>1. CASE Cut
    <3>1. Cut'
      BY <1>1, <2>1, CutRead DEF Cut
    <3>2. Handed'
      BY <1>1, StaysInEntry DEF InEntry
    <3>3. Place'
      BY <1>1, <3>1 DEF Place
    <3>. QED
      BY <3>2, <3>3
  <2>2. CASE ~Cut
    BY <1>1, <1>3, <2>2, EntersRest
  <2>. QED
    BY <2>1, <2>2
<1>. QED
  BY <1>3, <1>4, <1>5 DEF HInv

LEMMA PeekDescriptorStep ==
    ASSUME HInv, PeekDescriptor
    PROVE  HInv'
<1>1. /\ pc = "peek" /\ Ready /\ pc \in InEntry
      /\ UNCHANGED <<zip, conn, offset, eof, attempt, cur, out, trouble>>
  BY DEF PeekDescriptor, InEntry
<1>2. Reading
  BY <1>1 DEF Ready
<1>3. entries' = entries /\ file' = file
  BY <1>1 DEF entries, file
<1>4. CASE Got("dsig")
  <2>1. pc' = "descrest" /\ left' = 3 /\ buf' = Behind
    BY <1>4 DEF PeekDescriptor
  <2>2. left' = RestOfDescriptor
    BY <1>4, <2>1 DEF RestOfDescriptor
  <2>3. ~Cut
    BY <1>4, CutRead DEF Got
  <2>4. Buffer' /\ Pos' = Pos + Len(Block) /\ buf' \in Seq(Int)
    BY <1>1, <1>2, <2>1, WalkTakes
  <2>5. HTypes'
    BY <1>1, <1>3, <2>1, <2>4 DEF HInv, HTypes
  <2>6. Handed' /\ Place'
    BY <1>1, <2>1, <2>2, <2>3, <2>4, EntersRest
  <2>. QED
    BY <2>4, <2>5, <2>6 DEF HInv
<1>5. CASE ~Got("dsig")
  <2>1. pc' = NextEntry /\ left' = left /\ buf' = buf /\ pc' \in {"done", "sig"}
    BY <1>5 DEF PeekDescriptor, NextEntry
  <2>2. Buffer' /\ Pos' = Pos /\ buf' \in Seq(Int)
    BY <1>1, <1>2, <2>1, WalkLeaves
  <2>3. HTypes'
    BY <1>1, <1>3, <2>1, <2>2 DEF HInv, HTypes
  <2>4. Cut' = Cut
    BY <1>1, <2>1 DEF Cut
  <2>5. /\ cur > 0 /\ entries[cur].flag
        /\ Cut \/ (Pos = End /\ (Taking => Len(out) = entries[cur].body))
        /\ ~Taking => entries[cur].comp = 0 /\ entries[cur].method = "deflate"
    BY <1>1 DEF HInv, Handed, Place
  <2>6. ~Taking => Cut' \/ Stray(Pos' + 1)
    <3>1. SUFFICES ASSUME ~Taking, ~Cut PROVE Stray(End + 1)
      BY <2>2, <2>4, <2>5
    <3>. DEFINE l == Len(entries[cur].trailer)
    <3>2. /\ l \in {3, 4, 5, 6}
          /\ Kind(End + 1) = (IF l \in {4, 6} THEN "dsig" ELSE "desc")
          /\ l \in {3, 5} => Stray(End + 1)
      BY <2>5, <3>1, DescriptorIs
    <3>3. Block # <<>> /\ buf[1] = End + 1
      BY <1>1, <2>5, <3>1, EndInFile, OneUnit, Numbers
    <3>4. Kind(End + 1) # "dsig"
      BY <1>5, <3>3 DEF Got
    <3>. QED
      BY <3>2, <3>4
  <2>7. Handed' /\ Place'
    BY <1>1, <2>1, <2>4, <2>5, <2>6, LeavesEntry
  <2>. QED
    BY <2>2, <2>3, <2>7 DEF HInv
<1>. QED
  BY <1>4, <1>5

LEMMA DiscardDescriptorStep ==
    ASSUME HInv, DiscardDescriptor
    PROVE  HInv'
<1>1. /\ pc = "descrest" /\ Ready /\ pc \in InEntry /\ Discarding
      /\ UNCHANGED <<zip, conn, offset, eof, attempt, cur, out, trouble>>
  BY DEF DiscardDescriptor, InEntry, Discarding
<1>2. Reading /\ cur > 0
  BY <1>1 DEF Ready, HInv, Handed
<1>3. /\ entries' = entries /\ file' = file /\ at' = at /\ Taking' = Taking
  BY <1>1 DEF entries, file, at, Taking
<1>4. \/ Cut
      \/ /\ Taking => Len(out) = entries[cur].body
         /\ ~Taking => Pos + left + 1 = at[cur + 1] \/ Stray(Pos + left + 1)
  BY <1>1 DEF HInv, Place
<1>5. at[cur + 1] \in 1..Len(file)
  BY <1>2, AfterData
<1>6. CASE Block = <<>>
  <2>1. pc' = NextEntry /\ left' = left /\ buf' = buf /\ pc' \in {"done", "sig"}
    BY <1>6 DEF DiscardDescriptor, NextEntry
  <2>2. Buffer' /\ Pos' = Pos /\ buf' \in Seq(Int)
    BY <1>1, <1>2, <2>1, WalkLeaves
  <2>3. HTypes'
    BY <1>1, <1>3, <2>1, <2>2 DEF HInv, HTypes
  <2>4. Cut' = Cut
    BY <1>1, <2>1 DEF Cut
  <2>5. ~Taking => Cut' \/ Pos' + 1 = at[cur + 1] \/ Stray(Pos' + 1)
    <3>1. SUFFICES ASSUME ~Taking, ~Cut
                   PROVE  Pos + 1 = at[cur + 1] \/ Stray(Pos + 1)
      BY <2>2, <2>4
    <3>2. Pos + left + 1 = at[cur + 1] \/ Stray(Pos + left + 1)
      BY <1>4, <3>1
    <3>3. Pos + left + 1 \in 1..Len(file)
      BY <1>5, <3>2 DEF Stray
    <3>4. Pos # Len(file)
      BY <3>3, Numbers
    <3>5. left = 0
      BY <1>1, <1>6, <3>1, <3>4, EmptyRead
    <3>6. Pos + left + 1 = Pos + 1
      BY <3>5, Numbers
    <3>. QED
      BY <3>2, <3>6
  <2>6. Handed' /\ Place'
    BY <1>1, <1>4, <2>1, <2>4, <2>5, LeavesEntry
  <2>. QED
    BY <2>2, <2>3, <2>6 DEF HInv
<1>7. CASE Block # <<>>
  <2>1. pc' = "descrest" /\ left' = left - Len(Block) /\ buf' = Behind
    BY <1>1, <1>7 DEF DiscardDescriptor, Remaining
  <2>2. Buffer' /\ Pos' = Pos + Len(Block) /\ buf' \in Seq(Int)
    BY <1>1, <1>2, <2>1, WalkTakes
  <2>3. Len(Block) \in Nat /\ Len(Block) <= left
    <3>1. Len(Block) = Least(left, Len(buf)) /\ Len(Block) \in 0..Len(buf)
      BY <1>1, BlockIs DEF HInv
    <3>2. \A l, n \in Nat : Least(l, n) <= l
      BY DEF Least
    <3>. QED
      BY <3>1, <3>2, Numbers
  <2>4. left' \in Nat
    BY <2>1, <2>3, Numbers
  <2>5. Pos' + left' + 1 = Pos + left + 1
    BY SMTT(30), <2>1, <2>2, <2>3, Numbers
  <2>6. HTypes'
    BY <1>1, <1>3, <2>1, <2>2, <2>4 DEF HInv, HTypes
  <2>7. Handed'
    BY <1>1, <2>1, StaysInEntry DEF InEntry
  <2>8. Stray(Pos + left + 1)' = Stray(Pos' + left' + 1)
    BY <1>1, <1>3 DEF Stray, Kind
  <2>9. ~Cut
    BY <1>7, CutRead
  <2>10. Place'
    BY <1>1, <1>3, <1>4, <2>1, <2>5, <2>8, <2>9 DEF Place
  <2>. QED
    BY <2>2, <2>6, <2>7, <2>10 DEF HInv
<1>. QED
  BY <1>6, <1>7

-----------------------------------------------------------------------------
(* The theorems. *)

LEMMA HInit == Init => HInv
<1>. SUFFICES ASSUME Init PROVE HInv
  OBVIOUS
<1>1. /\ zip \in Archives /\ conn = 0 /\ buf = <<>> /\ offset = 0 /\ eof = FALSE
      /\ attempt = 0 /\ cur = 0 /\ left = 0 /\ out = <<>> /\ pc = "open" /\ trouble = FALSE
  BY DEF Init
<1>2. LaidOut(zip)
  BY <1>1, StreamAssumption
<1>3. Len(entries) \in Nat /\ Len(file) \in Nat
  <2>1. entries \in Seq(Entry) /\ file \in Seq(Unit)
    BY <1>2 DEF LaidOut, entries, file
  <2>. QED
    BY <2>1, LenProperties
<1>4. buf \in Seq(Int) /\ out \in Seq(Int) /\ Len(buf) = 0 /\ Len(out) = 0
  BY <1>1, EmptySeq
<1>5. HTypes
  <2>1. conn \in 0..(Len(file) + 1) /\ offset \in 0..Len(file)
    BY <1>1, <1>3
  <2>2. attempt \in 0..MaxRetries /\ cur \in 0..Len(entries) /\ left \in Nat
    BY <1>1, <1>3, StreamAssumption
  <2>3. eof \in BOOLEAN /\ trouble \in BOOLEAN
    BY <1>1
  <2>. QED
    BY <1>1, <1>4, <2>1, <2>2, <2>3 DEF HTypes
<1>6. Buffer
  BY <1>1, <1>4, StreamAssumption DEF Buffer
<1>7. Handed
  BY <1>1, <1>4 DEF Handed, InEntry
<1>8. Place
  BY <1>1 DEF Place
<1>. QED
  BY <1>5, <1>6, <1>7, <1>8 DEF HInv

LEMMA HNext == HInv /\ [Next]_vars => HInv'
<1>. SUFFICES ASSUME HInv, [Next]_vars PROVE HInv'
  OBVIOUS
<1>1. CASE Client
  BY <1>1, OpenStep, ConnectionStep, ReadSigStep, ReadHeadStep, ReadBodyStep, ReadStreamStep,
     BadDataStep, SkipDescriptorStep, PeekDescriptorStep, DiscardDescriptorStep DEF Client
<1>2. CASE Network
  BY <1>2, DeliverStep, ConnectionStep DEF Network
<1>3. CASE UNCHANGED vars
  <2>1. UNCHANGED <<zip, conn, buf, offset, eof, attempt, cur, left, out, pc, trouble>>
    BY <1>3 DEF vars, streamVars, walkVars
  <2>2. entries' = entries /\ file' = file /\ Pos' = Pos /\ Cut' = Cut
    BY <2>1 DEF entries, file, Pos, Cut
  <2>3. HTypes'
    BY <2>1, <2>2 DEF HInv, HTypes
  <2>4. Buffer'
    BY <2>1, <2>2 DEF HInv, Buffer
  <2>5. Handed' /\ Place'
    BY <2>1, <2>2, HandedStays, PlaceStays DEF HInv
  <2>. QED
    BY <2>3, <2>4, <2>5 DEF HInv
<1>4. CASE Ended
  BY <1>3, <1>4 DEF Ended
<1>. QED
  BY <1>1, <1>2, <1>3, <1>4 DEF Next

LEMMA HInvariant == Spec => []HInv
<1>1. Init => HInv
  BY HInit
<1>2. HInv /\ [Next]_vars => HInv'
  BY HNext
<1>. QED
  BY <1>1, <1>2, PTL DEF Spec

\* Every variable keeps its type: no count of what is left goes below zero, and
\* what is buffered or handed on are units of the file.
THEOREM TypeCorrect == Spec => []TypeOK
<1>1. HInv => TypeOK
  <2>. SUFFICES ASSUME HInv PROVE TypeOK
    OBVIOUS
  <2>1. \A j \in 1..Len(buf) : buf[j] \in 1..Len(file)
    <3>1. \A a, n, m \in Nat : n <= a /\ a <= m => \A j \in 1..n : a - n + j \in 1..m
      OBVIOUS
    <3>2. Len(buf) <= offset /\ offset \in Nat /\ offset <= Len(file) /\ Len(file) \in Nat
      BY Numbers DEF HInv, Buffer
    <3>. QED
      BY SMTT(30), <3>1, <3>2, Numbers DEF HInv, Buffer, Pos
  <2>2. \A j \in 1..Len(out) : out[j] \in 1..Len(file)
    <3>1. SUFFICES ASSUME NEW j \in 1..Len(out) PROVE out[j] \in 1..Len(file)
      OBVIOUS
    <3>2. out # <<>>
      BY <3>1, EmptySeq, Numbers
    <3>3. cur > 0 /\ Len(out) <= entries[cur].body /\ out[j] = at[cur] + 1 + j
      BY <3>1, <3>2 DEF HInv, Handed
    <3>4. /\ End < Len(file) /\ End = at[cur] + 1 + entries[cur].body
          /\ at[cur] \in Nat /\ entries[cur].body \in Nat /\ Len(file) \in Nat /\ Len(out) \in Nat
      BY <3>3, EndInFile, Numbers
    <3>5. \A a, b, m, n \in Nat : a + 1 + b < n /\ m <= b =>
             \A i \in 1..m : a + 1 + i \in 1..n
      OBVIOUS
    <3>6. at[cur] + 1 + entries[cur].body < Len(file)
      BY <3>4
    <3>7. \A i \in 1..Len(out) : at[cur] + 1 + i \in 1..Len(file)
      BY <3>3, <3>4, <3>5, <3>6
    <3>. QED
      BY <3>1, <3>3, <3>7
  <2>3. buf \in Seq(1..Len(file)) /\ out \in Seq(1..Len(file))
    <3>1. \A s \in Seq(Int) : (\A j \in 1..Len(s) : s[j] \in 1..Len(file)) =>
                                 s \in Seq(1..Len(file))
      OBVIOUS
    <3>. QED
      BY <2>1, <2>2, <3>1 DEF HInv, HTypes
  <2>. QED
    BY <2>3 DEF HInv, HTypes, TypeOK
<1>. QED
  BY <1>1, HInvariant, PTL

LEMMA WantedIs ==
    ASSUME HInv, cur > 0, Taking
    PROVE  Wanted(cur)
<1>1. cur \in 1..Len(entries)
  BY Numbers
<1>. QED
  BY <1>1 DEF HInv, Handed, Wanted, Taking

\* What is handed on, as a part of the data.
LEMMA DataIs ==
    ASSUME HInv, cur > 0
    PROVE  /\ Data(cur) \in Seq(Int) /\ Len(Data(cur)) = entries[cur].body
           /\ \A j \in 1..entries[cur].body : Data(cur)[j] = at[cur] + 1 + j
<1>1. entries[cur].body \in Nat /\ at[cur] \in Nat
  BY Numbers
<1>. QED
  BY <1>1 DEF Data

\* The carver gets the data of the first matching entry, in order, each unit once,
\* whatever connections break.
THEOREM DataInOrder == Spec => []InOrder
<1>1. HInv => InOrder
  <2>. SUFFICES ASSUME HInv, out # <<>> PROVE Wanted(cur) /\ IsPrefix(out, Data(cur))
    BY DEF InOrder
  <2>1. cur > 0 /\ Taking /\ Len(out) <= entries[cur].body /\ out \in Seq(Int)
        /\ \A j \in 1..Len(out) : out[j] = at[cur] + 1 + j
    BY DEF HInv, Handed, HTypes
  <2>2. Wanted(cur)
    BY <2>1, WantedIs
  <2>. DEFINE D == Data(cur)
              m == Len(out)
  <2>3. /\ D \in Seq(Int) /\ Len(D) = entries[cur].body
        /\ \A j \in 1..entries[cur].body : D[j] = at[cur] + 1 + j
    BY <2>1, DataIs
  <2>4. m \in Nat /\ entries[cur].body \in Nat
    BY <2>1, Numbers
  <2>. HIDE DEF D
  <2>5. \A j \in 1..m : D[j] = out[j] /\ D[j] \in Int
    <3>1. \A j \in 1..m : j \in 1..entries[cur].body
      BY <2>1, <2>4
    <3>2. \A j \in 1..m : out[j] \in Int
      BY <2>1
    <3>. QED
      BY <2>1, <2>3, <3>1, <3>2
  <2>6. SubSeq(out, 1, m) = out
    BY <2>1, SubSeqFull
  <2>7. SubSeq(D, 1, m) = out
    <3>1. /\ SubSeq(D, 1, m) \in Seq(Int) /\ Len(SubSeq(D, 1, m)) = (IF 1 <= m THEN m - 1 + 1 ELSE 0)
          /\ \A j \in 1..(m - 1 + 1) : SubSeq(D, 1, m)[j] = D[1 + j - 1]
      <4>1. 1 \in Int /\ m \in Int /\ \A j \in 1..m : D[j] \in Int
        BY <2>4, <2>5
      <4>. QED
        BY <4>1, SubSeqProperties
    <3>. HIDE DEF m
    <3>2. Len(SubSeq(D, 1, m)) = m
      BY <2>4, <3>1
    <3>3. ASSUME NEW j \in 1..m PROVE SubSeq(D, 1, m)[j] = out[j]
      <4>1. j \in 1..(m - 1 + 1) /\ 1 + j - 1 = j
        BY <2>4
      <4>. QED
        BY <2>5, <3>1, <4>1
    <3>. QED
      BY <2>1, <3>1, <3>2, <3>3, SeqEqual DEF m
  <2>8. m <= Len(D)
    BY <2>1, <2>3
  <2>. QED
    BY <2>2, <2>6, <2>7, <2>8 DEF IsPrefix, D
<1>. QED
  BY <1>1, HInvariant, PTL

\* The end of the member means all of it, unless a response was cut short without
\* an error.
THEOREM MemberIsWhole == Spec => []WholeUnlessCut
<1>1. HInv => WholeUnlessCut
  <2>. SUFFICES ASSUME HInv, pc = "done", ~trouble PROVE Wanted(cur) /\ out = Data(cur)
    BY DEF WholeUnlessCut
  <2>1. cur > 0 /\ Taking /\ Len(out) = entries[cur].body /\ out \in Seq(Int)
        /\ \A j \in 1..Len(out) : out[j] = at[cur] + 1 + j
    BY DEF HInv, HTypes, Handed, Place, InEntry
  <2>2. /\ Data(cur) \in Seq(Int) /\ Len(Data(cur)) = Len(out)
        /\ \A j \in 1..Len(out) : Data(cur)[j] = out[j]
    BY <2>1, DataIs
  <2>3. out = Data(cur)
    BY <2>1, <2>2, SeqEqual
  <2>. QED
    BY <2>1, <2>3, WantedIs
<1>. QED
  BY <1>1, HInvariant, PTL

\* Broken connections alone never make the walk refuse an archive it can walk.
THEOREM WalkIsNotRefused == Spec => []NeverRefused
<1>1. HInv => NeverRefused
  BY DEF HInv, Place, NeverRefused
<1>. QED
  BY <1>1, HInvariant, PTL

\* The buffer stays within two chunks.
THEOREM BufferIsSmall == Spec => []BufferBounded
<1>1. HInv => BufferBounded
  BY DEF HInv, Buffer, BufferBounded
<1>. QED
  BY <1>1, HInvariant, PTL

=============================================================================
