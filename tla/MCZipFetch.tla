---------------------------- MODULE MCZipFetch ----------------------------
(***************************************************************************)
(* Archives built from their members, with the verdict that a reader who   *)
(* saw the whole of one would give, and archives that are broken in one    *)
(* place.                                                                  *)
(***************************************************************************)
EXTENDS ZipFetch, SequencesExt

Content(id, packed, size) == [id |-> id, packed |-> packed, size |-> size]

\* A member: what the directory calls it, how it is packed, how long the
\* local header's fields are, and its cells.
Member(name, method, skip, c) ==
    [name |-> name, method |-> method, skip |-> skip, content |-> c]

Deflated(skip) == Member("wanted", "deflate", skip, Content("wanted", 1, 2))
Plain(skip)    == Member("wanted", "store", skip, Content("wanted", 2, 2))
Another        == Member("another", "deflate", 0, Content("other", 1, 2))

Packed(m) ==
    <<Local(m.skip)>> \o [i \in 1 .. m.skip |-> Junk]
      \o [i \in 1 .. m.content.packed |-> Data(m.content, i)]

Offset(ms, i) == Len(FlattenSeq([j \in 1 .. i - 1 |-> Packed(ms[j])]))

EntryOf(ms, i) ==
    [name |-> ms[i].name, method |-> ms[i].method, crc |-> ms[i].content.id,
     offset |-> Offset(ms, i), compressed_size |-> ms[i].content.packed,
     uncompressed_size |-> ms[i].content.size]

EndOf(ms, comment) ==
    [entries |-> Len(ms), central_size |-> Len(ms),
     central_offset |-> Offset(ms, Len(ms) + 1), comment |-> comment]

Comment(n) == [i \in 1 .. n |-> Junk]

Build(entries, ms, end) ==
    FlattenSeq([i \in DOMAIN ms |-> Packed(ms[i])])
      \o [i \in DOMAIN entries |-> Entry(entries[i])]
      \o <<End(end)>> \o Comment(end.comment)

Entries(ms) == [i \in DOMAIN ms |-> EntryOf(ms, i)]

\* A directory that does not fit the window is fetched up to DirectoryMax.
Sound(ms, comment) ==
    [cells |-> Build(Entries(ms), ms, EndOf(ms, comment)),
     verdict |-> IF /\ Len(ms) + 1 + comment > TailWindow
                    /\ Len(ms) > DirectoryMax THEN "UNSUPPORTED"
                 ELSE IF \E i \in DOMAIN ms : ms[i].name = "wanted"
                 THEN "NONE" ELSE "NO_MEMBER"]

Layouts ==
    {before \o w \o after :
        before \in {<<>>, <<Another>>}, after \in {<<>>, <<Another>>},
        w \in {<<>>} \cup {<<Deflated(n)>> : n \in 0 .. 1} \cup {<<Plain(0)>>}}
      \ {<<>>}

SoundArchives == {Sound(ms, n) : ms \in Layouts, n \in 0 .. TailWindow - 1}

\* One that is wrong in one place.
Base == <<Another, Deflated(0)>>

WithEntry(e, verdict) ==
    [cells |-> Build(<<EntryOf(Base, 1), e>>, Base, EndOf(Base, 0)),
     verdict |-> verdict]

WithEnd(end, verdict) ==
    [cells |-> Build(Entries(Base), Base, end), verdict |-> verdict]

\* Its record counts an entry more than the directory has.
Miscounted(comment) ==
    LET ms == <<Another, Another>>
    IN  [cells |-> Build(Entries(ms), ms,
                         [EndOf(ms, comment) EXCEPT !.entries = 3]),
         verdict |-> "NOT_A_ZIP"]

Wanted == EntryOf(Base, 2)

BrokenArchives ==
    {WithEntry([Wanted EXCEPT !.crc = "other"], "INFLATE"),
     WithEntry([Wanted EXCEPT !.uncompressed_size = 1], "INFLATE"),
     WithEntry([Wanted EXCEPT !.method = "lzma"], "UNSUPPORTED"),
     WithEntry([Wanted EXCEPT !.uncompressed_size = 3], "UNSUPPORTED"),
     WithEntry([Wanted EXCEPT !.compressed_size = 0], "NO_MEMBER"),
     WithEntry([Wanted EXCEPT !.offset = 4], "NOT_A_ZIP"),
     WithEntry([Wanted EXCEPT !.offset = 1], "NOT_A_ZIP"),
     WithEntry([Wanted EXCEPT !.offset = Sentinel], "NOT_A_ZIP"),
     Miscounted(0), Miscounted(1),
     WithEnd([EndOf(Base, 0) EXCEPT !.central_size = 3], "NOT_A_ZIP"),
     WithEnd([EndOf(Base, 0) EXCEPT !.central_offset = Sentinel], "NOT_A_ZIP"),
     \* a false end record inside the comment
     [cells |-> Front(Build(Entries(Base), Base, EndOf(Base, 1)))
                  \o <<End(EndOf(Base, 1))>>,
      verdict |-> "NONE"],
     \* a page that is no archive at all, and an archive of nothing whose
     \* directory, empty, lies before the window
     [cells |-> Comment(3), verdict |-> "NOT_A_ZIP"],
     [cells |-> Comment(4)
                  \o <<End([entries |-> 0, central_size |-> 0,
                            central_offset |-> 0, comment |-> 0])>>,
      verdict |-> "NO_MEMBER"]}

AllArchives == SoundArchives \cup BrokenArchives

\* The next release: the member has moved, or is gone.
NextReleases == {Sound(<<Deflated(1)>>, 0), Sound(<<Another, Another>>, 0)}

TwoDownloads == {1, 2}

=============================================================================
