---------------------------- MODULE MCHttpStream ----------------------------
(***************************************************************************)
(* HttpStream on archives of up to three entries: what is stepped over has *)
(* known and unknown sizes and every form of data descriptor, and what is  *)
(* wanted is stored, deflated, of known and of unknown size.  Units and    *)
(* places follow from the entries.                                         *)
(***************************************************************************)
EXTENDS HttpStream

Signed   == <<"dsig", "desc", "desc", "desc">>
Unsigned == <<"desc", "desc", "desc">>
Wide     == <<"dsig", "desc", "desc", "desc", "desc", "desc">>
WideOnly == <<"desc", "desc", "desc", "desc", "desc">>

MCEntry(wanted, method, flag, comp, body, trailer) ==
    [wanted |-> wanted, method |-> method, flag |-> flag, comp |-> comp,
     body |-> body, trailer |-> trailer]

Others == {MCEntry(FALSE, "stored", FALSE, 0, 0, <<>>),          \* a directory
           MCEntry(FALSE, "other", FALSE, 2, 2, <<>>),
           MCEntry(FALSE, "deflate", TRUE, 13, 13, Unsigned),
           MCEntry(FALSE, "deflate", TRUE, 2, 2, Signed),
           MCEntry(FALSE, "deflate", TRUE, 2, 2, Wide),
           MCEntry(FALSE, "deflate", TRUE, 2, 2, WideOnly),
           MCEntry(FALSE, "deflate", TRUE, 0, 7, Signed),
           MCEntry(FALSE, "deflate", TRUE, 0, 2, Unsigned),
           MCEntry(FALSE, "stored", TRUE, 0, 0, Signed),
           MCEntry(FALSE, "other", TRUE, 0, 2, Signed)}

Members == {MCEntry(TRUE, "deflate", FALSE, 7, 7, <<>>),
            MCEntry(TRUE, "deflate", TRUE, 0, 7, Signed),
            MCEntry(TRUE, "deflate", TRUE, 0, 1, Unsigned),
            MCEntry(TRUE, "deflate", TRUE, 3, 3, Unsigned),
            MCEntry(TRUE, "stored", TRUE, 2, 2, Signed),
            MCEntry(TRUE, "other", FALSE, 2, 2, <<>>)}

EntryLists == {<<e>> : e \in Others \union Members}
              \union {<<e, m>> : e \in Others, m \in Members}
              \union {<<m, e>> : m \in Members, e \in Members}
              \union {<<e, f, m>> : e \in Others, f \in Others,
                                    m \in {x \in Members : x.comp = 0}}

\* Local headers, data and descriptors one after another, then the directory.
MCFile(es) ==
    FlattenSeq([i \in 1..Len(es) |->
                  LET k == Kinds(es[i]) IN [j \in 1..Len(k) |-> [kind |-> k[j], entry |-> i]]])
    \o <<[kind |-> "central", entry |-> 0]>>

MCPlaces(es) ==
    FoldLeft(LAMBDA a, e : Append(a, Last(a) + Len(Kinds(e))), <<1>>, es)

\* The same under two names: TLC keeps the value of the first.
Written == {[entries |-> es, file |-> MCFile(es), at |-> MCPlaces(es)] : es \in EntryLists}

MCArchives == Written
=============================================================================
