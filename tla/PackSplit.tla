------------------------------ MODULE PackSplit ------------------------------
(***************************************************************************)
(* How pack_release_assets.py splits a file into release assets, how       *)
(* `cat` puts the pieces together again, and what cvt1_to_text.py makes of *)
(* the result.                                                             *)
(*                                                                         *)
(* A file is a sequence of units: records (digests or lines) and, in front *)
(* of a CVT1 pack, a header.  Sizes are sums over the units.  A split file *)
(* is a function from part numbers to files; a file that fits is left      *)
(* alone and has the number 0, as its name has no _partNN.  Fewer than a   *)
(* hundred parts are made, so the order of the names is that of numbers.   *)
(***************************************************************************)
EXTENDS Integers, Sequences, FiniteSets, SequencesExt

CONSTANTS HeaderSize,     \* bytes of a CVT1 header
          Limit,          \* --limit-mib in bytes
          MaxAttempts     \* MAX_SPLIT_ATTEMPTS

ASSUME SplitAssumption ==
    HeaderSize \in Nat /\ Limit \in Nat \ {0} /\ MaxAttempts \in Nat \ {0}

Header(run, total) == [kind |-> "header", run |-> run, n |-> total]
Record(run, digest) == [kind |-> "record", run |-> run, n |-> digest]

HasHeader(file) == file # <<>> /\ file[1].kind = "header"
Body(file) == IF HasHeader(file) THEN Tail(file) ELSE file
Head1(file) == IF HasHeader(file) THEN <<file[1]>> ELSE <<>>

\* st_size of a file whose records take size bytes each.
FileSize(file, size) ==
    LET headers == Cardinality({i \in DOMAIN file : file[i].kind = "header"})
    IN headers * HeaderSize + (Len(file) - headers) * size

Ceil(a, b) == (a + b - 1) \div b

\* Mutant of PerPart: the quotient is rounded down.
Floor(count, parts) == Max({1, count \div parts})

\* Records (lines) of a part.
PerPart(count, parts) == Max({1, Ceil(count, parts)})

\* split_bin_into, split_txt_into: the header goes with the first part.
SplitInto(file, parts) ==
    IF parts <= 1 THEN [k \in {0} |-> file]
    ELSE LET body == Body(file)
             per  == PerPart(Len(body), parts)
         IN [k \in 1..Ceil(Len(body), per) |->
               (IF k = 1 THEN Head1(file) ELSE <<>>)
               \o SubSeq(body, (k - 1) * per + 1, Min({k * per, Len(body)}))]

\* process_bin and process_txt: the number of parts tried first.
FirstParts(file, size) ==
    LET usable == IF HasHeader(file) THEN Max({1, Limit - HeaderSize}) ELSE Limit
    IN IF Body(file) = <<>> THEN 1 ELSE Max({1, Ceil(Len(Body(file)) * size, usable)})

\* Mutant of Oversized: the header of the first part is not counted.
BodyOversized(file, size) == Len(Body(file)) * size > Limit

Oversized(file, size) == FileSize(file, size) > Limit

\* The attempts of _split_verify_retry that leave no part over the limit.
Fitting(file, size) ==
    {n \in 0..(MaxAttempts - 1) :
        LET parts == SplitInto(file, FirstParts(file, size) * 2^n)
        IN \A k \in DOMAIN parts : ~Oversized(parts[k], size)}

\* _split_verify_retry: the first such attempt; the parts of the others are
\* removed.
CanSplit(file, size) == Fitting(file, size) # {}
SplitFile(file, size) ==
    SplitInto(file, FirstParts(file, size) * 2^Min(Fitting(file, size)))

\* `cat` of files in the order of their numbers.
Cat(files) ==
    LET nth(i) == CHOOSE k \in DOMAIN files :
                    Cardinality({j \in DOMAIN files : j < k}) = i - 1
    IN FlattenSeq([i \in 1..Cardinality(DOMAIN files) |-> files[nth(i)]])

-----------------------------------------------------------------------------
(* cvt1_to_text.py *)

\* read_cvt1_header and the size check of iter_cvt1_hex_digests.
Readable(file) == HasHeader(file) /\ Len(Body(file)) >= file[1].n

\* Mutant of Lines: every digest there is, whatever the header says.
AllLines(file) == Body(file)

\* The digests written: as many as the header counts.
Lines(file) == SubSeq(Body(file), 1, file[1].n)

=============================================================================
