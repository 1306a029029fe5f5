----------------------------- MODULE HttpStream -----------------------------
(***************************************************************************)
(* The producer's source: HttpByteStream reads one remote zip file and     *)
(* reconnects with a Range request when its connection breaks;             *)
(* _walk_zip_to_member looks, local header by local header, for the        *)
(* database, and _inflate_zip_entry hands on its data.  CarveEngine has    *)
(* this source as an environment: a block, the end of the member or an     *)
(* exception.                                                              *)
(*                                                                         *)
(* The file is a sequence of units, four bytes each: signatures, the rest  *)
(* of a local header, compressed data, data descriptors.  A unit in the    *)
(* buffer, or handed on, is named by its place in the file.                *)
(***************************************************************************)
EXTENDS Integers, Sequences, SequencesExt

CONSTANTS Archives,      \* the zip files
          Chunk,         \* chunk_size, in units
          MaxRetries     \* max_retries

\* wanted: _member_matches.  flag: bit 3, a data descriptor follows the data.
\* comp: the compressed size in the local header, 0 when it is not known yet.
\* body: the size of the data.  trailer: the units of the descriptor.
Entry == [wanted : BOOLEAN, method : {"stored", "deflate", "other"}, flag : BOOLEAN,
          comp : Nat, body : Nat, trailer : Seq({"dsig", "desc"})]

\* A data descriptor: a checksum and two sizes of 32 bits, or of 64, with or
\* without a signature in front.
Descriptors == {[j \in 1..n |-> "desc"] : n \in {3, 5}}
               \union {[j \in 1..n |-> IF j = 1 THEN "dsig" ELSE "desc"] : n \in {4, 6}}

\* The end of stored data cannot be told from what follows, so only other data
\* may be of unknown size, and a descriptor follows it then.  Stored data of
\* unknown size is thereby left out: the code would take it for none, without
\* an error.
WellFormed(e) ==
    /\ e.comp # e.body => e.comp = 0 /\ e.flag /\ e.method # "stored"
    /\ e.method = "deflate" => e.body > 0
    /\ IF e.flag THEN e.trailer \in Descriptors ELSE e.trailer = <<>>

Unit == [kind : {"local", "head", "body", "dsig", "desc", "central"}, entry : Nat]

Kinds(e) == <<"local", "head">> \o [j \in 1..e.body |-> "body"] \o e.trailer

\* An archive: its entries, its units, and the place of each local header; the
\* central directory is one unit behind them.
LaidOut(z) ==
    LET n == Len(z.entries) IN
    /\ z.entries \in Seq(Entry) /\ \A i \in 1..n : WellFormed(z.entries[i])
    /\ z.file \in Seq(Unit)
    /\ z.at \in Seq(1..Len(z.file)) /\ Len(z.at) = n + 1
    /\ z.at[1] = 1 /\ z.at[n + 1] = Len(z.file)
    /\ z.file[Len(z.file)] = [kind |-> "central", entry |-> 0]
    /\ \A i \in 1..n :
         LET k == Kinds(z.entries[i]) IN
         /\ z.at[i + 1] = z.at[i] + Len(k)
         /\ \A j \in 1..Len(k) : z.file[z.at[i] + j - 1] = [kind |-> k[j], entry |-> i]

ASSUME StreamAssumption ==
    /\ \A z \in Archives : LaidOut(z)
    /\ Chunk \in Nat \ {0} /\ MaxRetries \in Nat \ {0}

VARIABLES
    zip,       \* the archive
    conn,      \* the unit the server sends next
    buf,       \* _buf
    offset,    \* _raw_offset
    eof,       \* _eof
    attempt,   \* the reconnect attempt under way, 0 when connected
    cur,       \* the entry whose local header was read last
    left,      \* units still to be read of data or descriptor
    out,       \* the units of data handed to the carver
    pc,
    trouble    \* history: what goes wrong is more than broken connections

streamVars == <<conn, buf, offset, eof, attempt>>
walkVars   == <<cur, left, out>>
vars == <<zip, streamVars, walkVars, pc, trouble>>

Least(a, b) == IF a < b THEN a ELSE b

entries == zip.entries

file == zip.file

at == zip.at

Kind(p) == file[p].kind

\* The data of an entry, by place.
Data(i) == [k \in 1..entries[i].body |-> at[i] + 1 + k]

Init ==
    /\ zip \in Archives
    /\ conn = 0 /\ buf = <<>> /\ offset = 0 /\ eof = FALSE /\ attempt = 0
    /\ cur = 0 /\ left = 0 /\ out = <<>>
    /\ pc = "open" /\ trouble = FALSE

-----------------------------------------------------------------------------
(* HttpByteStream. *)

\* The constructor opens the first connection; a failure is not retried.
Open ==
    /\ pc = "open"
    /\ \/ pc' = "sig" /\ conn' = 1 /\ UNCHANGED trouble
       \/ pc' = "raised" /\ trouble' = TRUE /\ UNCHANGED conn
    /\ UNCHANGED <<zip, buf, offset, eof, attempt, walkVars>>

\* Mutant of Want: discard() waits for all it has to drop.
WantAll == IF pc \in {"body", "descrest"} THEN left ELSE
           IF pc = "stream" THEN Chunk ELSE 1

\* How many units the read under way needs in the buffer.
Want == IF pc \in {"body", "descrest"} THEN Least(Chunk, left) ELSE
        IF pc = "stream" THEN Chunk ELSE 1

Reading == pc \notin {"open", "done", "raised"}
Filling == Reading /\ ~eof /\ attempt = 0 /\ Len(buf) < Want
Ready   == Reading /\ (eof \/ Len(buf) >= Want)

\* A block arrives.
Deliver ==
    /\ Filling
    /\ \E n \in 1..Chunk :
         /\ conn + n <= Len(file) + 1
         /\ buf' = buf \o [j \in 1..n |-> conn + j - 1]
         /\ conn' = conn + n
         /\ offset' = offset + n
    /\ UNCHANGED <<zip, eof, attempt, walkVars, pc, trouble>>

\* The response has ended.
ResponseEnds ==
    /\ Filling /\ conn > Len(file)
    /\ eof' = TRUE
    /\ UNCHANGED <<zip, conn, buf, offset, attempt, walkVars, pc, trouble>>

\* The server closes the connection early.  requests reports an error (see
\* ReadFails); a read of urlopen's response returns nothing, as at its end.
CutShort ==
    /\ Filling /\ conn <= Len(file)
    /\ eof' = TRUE
    /\ trouble' = TRUE
    /\ UNCHANGED <<zip, conn, buf, offset, attempt, walkVars, pc>>

\* Mutant of EofAfterError: an exception ends the stream.
ErrorIsEnd == TRUE

EofAfterError == eof

\* Connection reset, read timeout, response cut short: _reconnect begins.
ReadFails ==
    /\ Filling
    /\ attempt' = 1
    /\ eof' = EofAfterError
    /\ UNCHANGED <<zip, conn, buf, offset, walkVars, pc, trouble>>

\* Mutant of Resume: a reply that starts over (status 200) is accepted.
StartOver == 1

\* The place a reply to the Range request (status 206) starts at.
Resume == offset + 1

Reopened ==
    /\ attempt > 0 /\ pc # "raised" /\ offset < Len(file)
    /\ attempt' = 0
    /\ conn' = Resume
    /\ UNCHANGED <<zip, buf, offset, eof, walkVars, pc, trouble>>

\* Mutant of NextAttempt: the attempts are not counted.
SameAttempt == attempt

NextAttempt == attempt + 1

\* No connection, an error status (416 behind the last byte), or a server that
\* does not honour the range: the next attempt, or the end of them.
ReopenFails ==
    /\ attempt > 0 /\ pc # "raised"
    /\ IF attempt < MaxRetries
       THEN attempt' = NextAttempt /\ UNCHANGED <<pc, trouble>>
       ELSE pc' = "raised" /\ trouble' = TRUE /\ UNCHANGED attempt
    /\ UNCHANGED <<zip, conn, buf, offset, eof, walkVars>>

-----------------------------------------------------------------------------
(* _walk_zip_to_member, _skip_entry, _inflate_zip_entry. *)

\* The member is being handed on, not skipped.
Taking == entries[cur].wanted

\* discard() is under way: it drops all that is in the buffer and may go.
Discarding == pc = "descrest" \/ (pc = "body" /\ ~Taking)

\* What the read under way takes from the buffer, and what it leaves.
Block == SubSeq(buf, 1, Least(IF Discarding THEN left ELSE Want, Len(buf)))

Behind == SubSeq(buf, Len(Block) + 1, Len(buf))

Got(k) == Block # <<>> /\ Kind(buf[1]) = k

\* Behind the data and the descriptor of an entry.
NextEntry == IF Taking THEN "done" ELSE "sig"

\* A signature: a local header, or the walk ends with an exception, "member not
\* found" or "unexpected signature".
ReadSig ==
    /\ pc = "sig" /\ Ready
    /\ pc' = IF Got("local") THEN "head" ELSE "raised"
    /\ buf' = Behind
    /\ UNCHANGED <<zip, conn, offset, eof, attempt, walkVars, trouble>>

\* What is read next: data whose size is known, or deflate data up to its end.
\* An entry that is skipped goes through the inflater only if its size is not
\* known yet.
BodyOf(e) ==
    CASE e.method = "other" /\ (e.wanted \/ (e.flag /\ e.comp = 0)) -> "raised"
      [] e.method = "deflate" /\ e.wanted /\ (e.flag \/ e.comp = 0) -> "stream"
      [] e.method = "deflate" /\ ~e.wanted /\ e.flag /\ e.comp = 0 -> "stream"
      [] OTHER -> "body"

\* Header, name and extra field; the entry is wanted or to be skipped.
ReadHead ==
    /\ pc = "head" /\ Ready
    /\ IF Block = <<>>
       THEN pc' = "raised" /\ UNCHANGED <<cur, left>>
       ELSE LET i == file[buf[1]].entry IN
            /\ cur' = i
            /\ left' = entries[i].comp
            /\ pc' = BodyOf(entries[i])
    /\ buf' = Behind
    /\ UNCHANGED <<zip, conn, offset, eof, attempt, out, trouble>>

HandOn(s) == IF Taking THEN out \o s ELSE out

\* Mutant of Remaining: every block counts as a whole chunk.
ByChunks == left - Chunk

Remaining == left - Len(Block)

\* Data of a known size, handed on or discarded; a read that returns nothing
\* ends the loop as if all had come.
ReadBody ==
    /\ pc = "body" /\ Ready
    /\ IF Block = <<>>
       THEN /\ pc' = IF entries[cur].flag THEN "desc" ELSE NextEntry
            /\ UNCHANGED <<buf, left, out>>
       ELSE /\ buf' = Behind
            /\ left' = Remaining
            /\ out' = HandOn(Block)
            /\ UNCHANGED pc
    /\ UNCHANGED <<zip, conn, offset, eof, attempt, cur, trouble>>

IsData(p) == Kind(p) = "body"

\* Data of unknown size: the decoder takes the data at the head of the block and
\* tells where it ends; what it did not use goes before the rest of the buffer.
ReadStream ==
    /\ pc = "stream" /\ Ready
    /\ \E n \in 0..Len(Block) :
         LET last == n > 0 /\ ~IsData(Block[n] + 1) IN
         /\ \A j \in 1..n : IsData(Block[j])
         /\ n < Len(Block) => ~IsData(Block[n + 1])
         /\ out' = HandOn(SubSeq(Block, 1, n))
         /\ buf' = SubSeq(Block, n + 1, Len(Block)) \o Behind
         /\ pc' = IF Block # <<>> /\ ~last THEN "stream"
                  ELSE IF entries[cur].flag THEN "peek" ELSE NextEntry
    /\ UNCHANGED <<zip, conn, offset, eof, attempt, cur, left, trouble>>

\* zlib.error: the data is damaged.
BadData ==
    /\ pc \in {"body", "stream"} /\ Ready /\ Block # <<>>
    /\ entries[cur].method = "deflate" /\ (Taking \/ pc = "stream")
    /\ pc' = "raised" /\ trouble' = TRUE
    /\ UNCHANGED <<zip, streamVars, walkVars>>

\* Mutant of RestOfDescriptor: a descriptor without signature is as long.
AlwaysTwelve == 3

\* What _skip_data_descriptor discards behind the first four bytes.
RestOfDescriptor == IF Got("dsig") THEN 3 ELSE 2

SkipDescriptor ==
    /\ pc = "desc" /\ Ready
    /\ buf' = Behind
    /\ left' = RestOfDescriptor
    /\ pc' = "descrest"
    /\ UNCHANGED <<zip, conn, offset, eof, attempt, cur, out, trouble>>

\* Behind data of unknown size only a descriptor with a signature is skipped;
\* other bytes are put back.
PeekDescriptor ==
    /\ pc = "peek" /\ Ready
    /\ IF Got("dsig")
       THEN pc' = "descrest" /\ left' = 3 /\ buf' = Behind
       ELSE pc' = NextEntry /\ UNCHANGED <<left, buf>>
    /\ UNCHANGED <<zip, conn, offset, eof, attempt, cur, out, trouble>>

DiscardDescriptor ==
    /\ pc = "descrest" /\ Ready
    /\ IF Block = <<>>
       THEN pc' = NextEntry /\ UNCHANGED <<left, buf>>
       ELSE left' = Remaining /\ buf' = Behind /\ UNCHANGED pc
    /\ UNCHANGED <<zip, conn, offset, eof, attempt, cur, out, trouble>>

Ended == pc \in {"done", "raised"} /\ UNCHANGED vars

-----------------------------------------------------------------------------
Client == \/ Open \/ ReopenFails \/ Reopened \/ ReadSig \/ ReadHead \/ ReadBody
          \/ ReadStream \/ BadData \/ SkipDescriptor \/ PeekDescriptor
          \/ DiscardDescriptor

Network == Deliver \/ ResponseEnds \/ CutShort \/ ReadFails

Next == Client \/ Network \/ Ended

Spec == Init /\ [][Next]_vars

\* The client runs, and a read comes back, if only by its timeout.  The number
\* of reconnections is bounded for one break of the connection, not for all of
\* them: a server that accepts every Range request and breaks every reply off
\* before its first byte keeps the client for ever.  So data must come through
\* some time.
FairSpec == Spec /\ WF_vars(Client) /\ WF_vars(Network) /\ SF_vars(Deliver)

-----------------------------------------------------------------------------
(* Properties. *)

\* Every variable stays within its type.
TypeOK ==
    /\ zip \in Archives
    /\ conn \in 0..(Len(file) + 1) /\ offset \in 0..Len(file)
    /\ buf \in Seq(1..Len(file)) /\ out \in Seq(1..Len(file))
    /\ eof \in BOOLEAN /\ attempt \in 0..MaxRetries
    /\ cur \in 0..Len(entries) /\ left \in Nat
    /\ pc \in {"open", "sig", "head", "body", "stream", "desc", "peek", "descrest",
               "done", "raised"}
    /\ trouble \in BOOLEAN

Wanted(i) ==
    /\ i \in 1..Len(entries) /\ entries[i].wanted
    /\ \A j \in 1..(i - 1) : ~entries[j].wanted

\* The carver gets the data of the first matching entry and nothing else, in
\* order, each byte once: whatever connections break, wherever blocks begin and
\* whatever is pushed back.
InOrder == out # <<>> => Wanted(cur) /\ IsPrefix(out, Data(cur))

\* The end of the member is reported only when all of it was handed on, or when
\* a response was cut short without an error.
WholeUnlessCut == pc = "done" /\ ~trouble => Wanted(cur) /\ out = Data(cur)

\* "automatic reconnect-and-resume on a dropped connection": the end of the
\* member is reported only when all of it was handed on.
DoneMeansWhole == pc = "done" => out = Data(cur)

\* An entry the walk can step over: its descriptor has the 32-bit form, with a
\* signature if the size of the data is not known, and then the data is deflated.
Skippable(e) ==
    /\ e.flag => Len(e.trailer) \in {3, 4}
    /\ e.flag /\ e.comp = 0 /\ e.method = "deflate" => Len(e.trailer) = 4
    /\ ~(e.flag /\ e.comp = 0 /\ e.method = "other")

Servable ==
    \E i \in 1..Len(entries) :
        /\ Wanted(i) /\ entries[i].method # "other"
        /\ \A j \in 1..(i - 1) : Skippable(entries[j])

\* Broken connections alone never make the walk fail: an archive that can be
\* walked is refused only after the last reconnect attempt, a response cut
\* short or damaged data.  The constructor's first request has one attempt, and
\* its failure counts as trouble too.
NeverRefused == pc = "raised" /\ ~trouble => ~Servable

\* The buffer stays within two chunks, however large the entries to step over.
BufferBounded == Len(buf) < 2 * Chunk

\* The producer ends, with the member or with an exception.
SourceEnds == <>(pc \in {"done", "raised"})
=============================================================================
