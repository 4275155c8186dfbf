-------------------------------- MODULE Zip --------------------------------
(***************************************************************************)
(* Reading a zip from its back end, src/codec/zip.c, and the unpacking of  *)
(* a member, src/codec/inflate.c as zip_fetch.c uses it.                   *)
(*                                                                         *)
(* An archive is a sequence of cells in place of bytes.  A local header,   *)
(* an entry of the central directory and the end record take one cell      *)
(* each, packed data a cell per part; sizes and offsets count cells and    *)
(* offsets start at 0, as in the code.  Contents are told apart by their   *)
(* identity, which is also their CRC.                                      *)
(***************************************************************************)
EXTENDS Integers, Sequences, FiniteSetsExt

\* A content takes `packed` cells in the archive and is `size` long.
Contents == [id : {"wanted", "other"}, packed : {1, 2}, size : {1, 2, 3}]

Local(skip) == [kind |-> "local", skip |-> skip]
Data(c, i)  == [kind |-> "data", of |-> c, part |-> i]
Entry(e)    == [kind |-> "central", entry |-> e]
End(e)      == [kind |-> "end", end |-> e]
Junk        == [kind |-> "junk"]

Sentinel == -1      \* 0xFFFF and 0xFFFFFFFF: look in the zip64 record

\* What a field of a record can say, the records, and the cells of archives.
Number == Nat \cup {Sentinel}

EntryRecords == [name : STRING, method : STRING, crc : STRING, offset : Number,
                 compressed_size : Number, uncompressed_size : Number]

EndRecords == [entries : Number, central_size : Number, central_offset : Number,
               comment : Nat]

Cells ==
    {Junk} \cup [kind : {"local"}, skip : Nat]
      \cup [kind : {"data"}, of : Contents, part : Nat]
      \cup [kind : {"central"}, entry : EntryRecords]
      \cup [kind : {"end"}, end : EndRecords]

\* inkwell_zip_find_end(): the last end record whose comment is exactly what
\* follows it, unless it is a zip64 one or its directory does not lie before
\* it.  The empty set is the code's false.
zip_find_end(window, window_offset) ==
    LET ends == {b \in DOMAIN window :
                    /\ window[b].kind = "end"
                    /\ window[b].end.comment = Len(window) - b}
        last == window[Max(ends)].end
        record_at == window_offset + Max(ends) - 1
    IN  IF ends = {} THEN {}
        ELSE IF Sentinel \in {last.entries, last.central_size,
                              last.central_offset} THEN {}
        ELSE IF last.central_offset + last.central_size > record_at THEN {}
        ELSE {last}

\* inkwell_zip_central_slice(): whether the directory is inside the window.
zip_central_in(end, len, window_offset) ==
    /\ end.central_offset >= window_offset
    /\ end.central_size <= len - (end.central_offset - window_offset)

zip_central_slice(end, window, window_offset) ==
    LET into == end.central_offset - window_offset
    IN  SubSeq(window, into + 1, into + end.central_size)

\* Mutant: a directory that breaks off is one without the member.
SearchToTheEnd(central, entries, basename) ==
    LET hits == {n \in 1 .. entries :
                    /\ n <= Len(central) /\ central[n].kind = "central"
                    /\ central[n].entry.name = basename}
    IN  IF hits = {} THEN [search |-> "ABSENT"]
        ELSE [search |-> "FOUND", entry |-> central[Min(hits)].entry]

\* inkwell_zip_find_member(): the walk stops at the first entry that is none
\* or is the one asked for.
zip_find_member(central, entries, basename) ==
    LET broken == {n \in 1 .. entries :
                      n > Len(central) \/ central[n].kind # "central"}
        hits == {n \in (1 .. entries) \ broken :
                    central[n].entry.name = basename}
        first == Min(broken \cup hits)
        found == central[first].entry
    IN  IF broken \cup hits = {} THEN [search |-> "ABSENT"]
        ELSE IF first \in broken THEN [search |-> "MALFORMED"]
        ELSE IF Sentinel \in {found.offset, found.compressed_size,
                              found.uncompressed_size}
             THEN [search |-> "MALFORMED"]
        ELSE [search |-> "FOUND", entry |-> found]

\* inkwell_zip_local_data_start(): the header's name and extra field, and
\* nothing else of it, place the data; Sentinel is the code's false.
zip_local_data_start(header, entry) ==
    IF header.kind = "local" THEN entry.offset + 1 + header.skip ELSE Sentinel

-----------------------------------------------------------------------------
(* Unpacking. *)

\* The contents these cells are the whole packed form of.
Whole(cells) ==
    {c \in Contents : cells = [i \in 1 .. c.packed |-> Data(c, i)]}

\* inkwell_inflate() into a buffer of `want`: what came out, or nothing when
\* the cells are no packed form or the result does not fit.
inflate(cells, want) == {c \in Whole(cells) : c.size <= want}

\* A stored member is its own cells.
stored(cells) == {c \in Whole(cells) : c.size = Len(cells)}

=============================================================================
