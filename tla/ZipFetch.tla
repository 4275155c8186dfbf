----------------------------- MODULE ZipFetch -----------------------------
(***************************************************************************)
(* One member out of a zip on a server, src/net/zip_fetch.c.               *)
(*                                                                         *)
(* A download is a chain of requests to one borrowed fetcher - HEAD, the   *)
(* tail window, the directory on its own if the window does not hold it,   *)
(* the local header, the member - and then the unpacking, on a tick.  Each *)
(* answer lands in a staged file and decides the next request.  The        *)
(* fetcher is the component of src/net/fetch.c seen from here: it takes    *)
(* one request at a time and answers it once.  The server may answer       *)
(* short, fail, or replace the archive between two requests.               *)
(***************************************************************************)
EXTENDS Zip

CONSTANTS
    Downloads,      \* the downloads asked for
    Archives,       \* the archives: [cells, verdict]
    Replacements,   \* those that may replace the one on the server
    TailWindow,     \* INKWELL_ZIP_TAIL_WINDOW, in cells
    DirectoryMax,   \* INKWELL_ZIP_FETCH_DIRECTORY_MAX, in cells
    MaxMember       \* the caller's max_member_bytes, in cells

ASSUME ZipAssumption ==
    /\ Downloads \subseteq Nat \ {0}
    /\ {TailWindow, DirectoryMax, MaxMember} \subseteq Nat \ {0}
    /\ Archives \subseteq [cells : Seq(Cells), verdict : STRING]
    /\ Replacements \subseteq Archives

VARIABLES
    archive,        \* what the server serves
    first,          \* what it served when the download began
    request,        \* the fetcher's request, or NoRequest
    files,          \* the staged files that exist, and what is in them
    zip,            \* struct inkwell_zip_fetch
    phase, calls    \* what the callers have seen

vars == <<archive, first, request, files, zip, phase, calls>>

Staged == {"window", "central", "header", "member"}

NoRequest == [owner |-> "none"]

\* Before the member has been found: all zero.
NoEntry == [name |-> "none", method |-> "store", crc |-> "none", offset |-> 0,
            compressed_size |-> 0, uncompressed_size |-> 0]

\* A zip that is initialised: all zero.  `fetch` says whether it has been
\* given a fetcher, and on_done is the download to report, 0 for NULL.
Zero ==
    [state |-> "IDLE", error |-> "NONE", fetch |-> FALSE, on_done |-> 0,
     step |-> "NULL", retried |-> FALSE, zip_size |-> 0,
     window_offset |-> 0, window_len |-> 0, directory_only |-> FALSE,
     central_offset |-> 0, central_entries |-> 0, entry |-> NoEntry,
     data_offset |-> 0, inflate_pending |-> FALSE]

busy(z) == z.state \notin {"IDLE", "READY", "FAILED"}

\* The staged files of a run that died may be about; they are overwritten.
Init ==
    /\ archive \in Archives
    /\ first = archive
    /\ request = NoRequest
    /\ files \in {[n \in {} |-> <<>>], [n \in Staged \cup {"image"} |-> <<Junk>>]}
    /\ zip = Zero
    /\ phase = [d \in Downloads |-> "unused"]
    /\ calls = [d \in Downloads |-> 0]

-----------------------------------------------------------------------------
(* Ends and requests.  Each sets zip, files, request and calls. *)

unlink(fs, names) == [n \in DOMAIN fs \ names |-> fs[n]]

\* Mutant: a failed download keeps what it had written of the result.
FinishKeepingResult(z, state, error, fs) ==
    /\ zip' = [z EXCEPT !.state = state, !.error = error, !.on_done = 0]
    /\ files' = unlink(fs, Staged)
    /\ request' = NoRequest
    /\ calls' = [d \in Downloads |->
                    calls[d] + IF d = z.on_done THEN 1 ELSE 0]

\* zip_finish(): the intermediates go, the result too after a failure, and
\* the callback runs once, out of a structure that has forgotten it.
zip_finish(z, state, error, fs) ==
    /\ zip' = [z EXCEPT !.state = state, !.error = error, !.on_done = 0]
    /\ files' = unlink(fs, Staged \cup IF state = "FAILED" THEN {"image"}
                                       ELSE {})
    /\ request' = NoRequest
    /\ calls' = [d \in Downloads |->
                    calls[d] + IF d = z.on_done THEN 1 ELSE 0]

zip_fail(z, error, fs) == zip_finish(z, "FAILED", error, fs)

\* zip_range(): `last` is unsigned, and an empty range at 0 ends at the
\* largest number there is.  A fetcher that does not start it is a failure.
zip_range(z, name, start, len, fs) ==
    \/ /\ request' = [owner |-> "zip", file |-> name, first |-> start,
                      last |-> IF start + len = 0 THEN 1000000
                               ELSE start + len - 1,
                      output_max |-> len]
       /\ zip' = z /\ files' = fs
       /\ UNCHANGED calls
    \/ zip_fail(z, "STAGING", fs)

zip_step_window(z, fs) ==
    LET offset == IF z.zip_size > TailWindow
                  THEN z.zip_size - TailWindow ELSE 0
        len    == z.zip_size - offset
    IN  zip_range([z EXCEPT !.step = "window", !.state = "READING",
                            !.window_offset = offset, !.window_len = len],
                  "window", offset, len, fs)

zip_step_central(z, fs) ==
    zip_range([z EXCEPT !.step = "central", !.state = "READING",
                        !.directory_only = TRUE],
              "central", z.window_offset, z.window_len, fs)

zip_step_header(z, fs) ==
    zip_range([z EXCEPT !.step = "header", !.state = "LOCATING"],
              "header", z.entry.offset, 1, fs)

zip_step_member(z, fs) ==
    zip_range([z EXCEPT !.step = "member", !.state = "FETCHING"],
              "member", z.data_offset, z.entry.compressed_size, fs)

\* The step that zip->step points at, taken again.
zip_step(z, fs) ==
    \/ z.step = "window"  /\ zip_step_window(z, fs)
    \/ z.step = "central" /\ zip_step_central(z, fs)
    \/ z.step = "header"  /\ zip_step_header(z, fs)
    \/ z.step = "member"  /\ zip_step_member(z, fs)

-----------------------------------------------------------------------------
(* What came back. *)

\* zip_take(): the file is exactly as long as was asked for, and not empty.
zip_take(name, expected, fs) == Len(fs[name]) = expected /\ expected > 0

\* It is not, or it could not be read back.
zip_take_fails(z, name, expected, fs) ==
    \/ /\ ~zip_take(name, expected, fs)
       /\ zip_fail(z, IF Len(fs[name]) # expected THEN "NETWORK" ELSE "STAGING",
                   fs)
    \/ zip_take(name, expected, fs) /\ zip_fail(z, "STAGING", fs)

\* The directory is not in the window: it is asked for on its own.
zip_directory_elsewhere(z, end, fs) ==
    IF end.central_size > DirectoryMax THEN zip_fail(z, "UNSUPPORTED", fs)
    ELSE zip_step_central([z EXCEPT !.window_offset = end.central_offset,
                                    !.window_len = end.central_size,
                                    !.central_offset = end.central_offset,
                                    !.central_entries = end.entries], fs)

\* What the directory says of the member, checked before a cell is fetched.
EntryVerdict(z, e) ==
    IF e.method \notin {"deflate", "store"} THEN "UNSUPPORTED"
    ELSE IF /\ z.central_offset # 0
            /\ e.offset + e.compressed_size > z.central_offset
         THEN "NOT_A_ZIP"
    ELSE IF e.compressed_size = 0 \/ e.uncompressed_size = 0 THEN "NO_MEMBER"
    ELSE IF e.compressed_size > MaxMember \/ e.uncompressed_size > MaxMember
         THEN "UNSUPPORTED"
    ELSE "NONE"

zip_search(z, central, entries, fs) ==
    LET found == zip_find_member(central, entries, "wanted")
        after == [z EXCEPT !.entry = found.entry]
    IN  \/ found.search = "MALFORMED" /\ zip_fail(z, "NOT_A_ZIP", fs)
        \/ found.search = "ABSENT" /\ zip_fail(z, "NO_MEMBER", fs)
        \/ /\ found.search = "FOUND"
           /\ IF EntryVerdict(z, found.entry) = "NONE"
              THEN zip_step_header(after, fs)
              ELSE zip_fail(after, EntryVerdict(z, found.entry), fs)

\* zip_read_directory(): the window, or the directory fetched on its own.
zip_read_directory(z, fs) ==
    LET name   == IF z.directory_only THEN "central" ELSE "window"
        window == fs[name]
        ends   == zip_find_end(window, z.window_offset)
    IN  \/ zip_take_fails(z, name, z.window_len, fs)
        \/ /\ zip_take(name, z.window_len, fs)
           /\ z.directory_only
           /\ zip_search(z, window, z.central_entries, fs)
        \/ /\ zip_take(name, z.window_len, fs)
           /\ ~z.directory_only
           /\ \/ ends = {} /\ zip_fail(z, "NOT_A_ZIP", fs)
              \/ \E end \in ends :
                    LET placed == [z EXCEPT
                                     !.central_offset = end.central_offset]
                    IN  IF zip_central_in(end, Len(window), z.window_offset)
                        THEN zip_search(placed,
                                        zip_central_slice(end, window,
                                                          z.window_offset),
                                        end.entries, fs)
                        ELSE zip_directory_elsewhere(placed, end, fs)

zip_read_header(z, fs) ==
    \/ zip_take_fails(z, "header", 1, fs)
    \/ /\ zip_take("header", 1, fs)
       /\ LET start == zip_local_data_start(fs["header"][1], z.entry)
          IN  IF start = Sentinel THEN zip_fail(z, "NOT_A_ZIP", fs)
              ELSE zip_step_member([z EXCEPT !.data_offset = start], fs)

\* Mutant: nothing tells the tick that the member has landed.
InflateForgotten(z, fs) ==
    /\ zip' = [z EXCEPT !.state = "INFLATING"]
    /\ files' = fs /\ request' = NoRequest
    /\ UNCHANGED calls

\* zip_step_inflate(): left to the next tick.
zip_step_inflate(z, fs) ==
    /\ zip' = [z EXCEPT !.state = "INFLATING", !.inflate_pending = TRUE]
    /\ files' = fs /\ request' = NoRequest
    /\ UNCHANGED calls

\* Mutant: the cells are unpacked, and their CRC is not looked at.
UnpackedUnchecked(z, cells) ==
    IF z.entry.method = "deflate" THEN inflate(cells, z.entry.uncompressed_size)
    ELSE stored(cells)

\* The content of the entry's length and CRC that the cells unpack to.
Unpacked(z, cells) ==
    {c \in IF z.entry.method = "deflate"
           THEN inflate(cells, z.entry.uncompressed_size) ELSE stored(cells) :
        c.size = z.entry.uncompressed_size /\ c.id = z.entry.crc}

\* zip_inflate(): the member unpacked and checked against the directory; a
\* result that could not be written whole is half there.
zip_inflate(z, fs) ==
    \/ zip_take_fails(z, "member", z.entry.compressed_size, fs)
    \/ /\ zip_take("member", z.entry.compressed_size, fs)
       /\ Unpacked(z, fs["member"]) = {}
       /\ zip_fail(z, "INFLATE", fs)
    \/ /\ zip_take("member", z.entry.compressed_size, fs)
       /\ \E c \in Unpacked(z, fs["member"]) :
             LET with(cells) == [n \in DOMAIN fs \cup {"image"} |->
                                    IF n = "image" THEN cells ELSE fs[n]]
             IN  \/ zip_finish(z, "READY", "NONE", with(<<c>>))
                 \/ zip_fail(z, "STAGING", with(<<Junk>>))

-----------------------------------------------------------------------------
(* The fetcher answers: zip_on_fetch(). *)

\* A request that failed on the way is made once more; HEAD has no step.
OnFetchFailed ==
    /\ request.owner = "zip"
    /\ \E transient \in BOOLEAN :
          IF transient /\ zip.step # "NULL" /\ ~zip.retried
          THEN zip_step([zip EXCEPT !.retried = TRUE], files)
          ELSE zip_fail(zip, "NETWORK", files)
    /\ UNCHANGED <<archive, first, phase>>

\* HEAD answered, with a length or without one.
OnFetchMeasured ==
    /\ request.owner = "zip" /\ zip.state = "MEASURING"
    /\ LET size  == Len(archive.cells)
           after == [zip EXCEPT !.retried = FALSE]
       IN  \/ zip_fail(after, "NOT_A_ZIP", files)       \* no length
           \/ /\ size >= 1
              /\ zip_step_window([after EXCEPT !.zip_size = size], files)
    /\ UNCHANGED <<archive, first, phase>>

\* What the server sends of a range, if it has any of it; it may stop short.
Replies ==
    LET last == IF request.last < Len(archive.cells) - 1
                THEN request.last ELSE Len(archive.cells) - 1
    IN  {SubSeq(archive.cells, request.first + 1, n + 1) :
            n \in {last, last - 1} \cap (request.first .. last)}

OnFetchRange ==
    /\ request.owner = "zip" /\ zip.state # "MEASURING"
    /\ \E body \in Replies :
          LET after == [zip EXCEPT !.retried = FALSE]
              fs    == [n \in DOMAIN files \cup {request.file} |->
                           IF n = request.file THEN body ELSE files[n]]
          IN  \/ zip.state = "READING"  /\ zip_read_directory(after, fs)
              \/ zip.state = "LOCATING" /\ zip_read_header(after, fs)
              \/ zip.state = "FETCHING" /\ zip_step_inflate(after, fs)
    /\ UNCHANGED <<archive, first, phase>>

\* The answer's head has come: the staged file is created, or emptied.
BodyBegins ==
    /\ request.owner = "zip" /\ zip.state # "MEASURING"
    /\ files' = [n \in DOMAIN files \cup {request.file} |->
                    IF n = request.file THEN <<>> ELSE files[n]]
    /\ files' # files
    /\ UNCHANGED <<archive, first, request, zip, phase, calls>>

\* A release replaces the archive under its name.
Replace ==
    /\ busy(zip) /\ archive = first
    /\ archive' \in Replacements
    /\ UNCHANGED <<first, request, files, zip, phase, calls>>

\* The fetcher's owner uses it while no download is running.
OtherRequest ==
    /\ \/ request = NoRequest /\ ~busy(zip) /\ request' = [owner |-> "other"]
       \/ request.owner = "other" /\ request' = NoRequest
    /\ UNCHANGED <<archive, first, files, zip, phase, calls>>

-----------------------------------------------------------------------------
(* The caller. *)

\* Refused before anything is touched, or by the fetcher after the structure
\* has been cleared.
StartRefused(d) ==
    /\ phase[d] = "unused"
    /\ phase' = [phase EXCEPT ![d] = "refused"]
    /\ \/ UNCHANGED zip
       \/ ~busy(zip) /\ request = NoRequest /\ zip' = [Zero EXCEPT !.fetch = TRUE]
    /\ UNCHANGED <<archive, first, request, files, calls>>

Start(d) ==
    /\ phase[d] = "unused"
    /\ ~busy(zip) /\ request = NoRequest
    /\ phase' = [phase EXCEPT ![d] = "accepted"]
    /\ zip' = [Zero EXCEPT !.fetch = TRUE, !.on_done = d, !.state = "MEASURING"]
    /\ request' = [owner |-> "zip"]
    /\ first' = archive
    /\ UNCHANGED <<archive, files, calls>>

Tick ==
    /\ zip.inflate_pending
    /\ zip_inflate([zip EXCEPT !.inflate_pending = FALSE], files)
    /\ UNCHANGED <<archive, first, phase>>

\* cancel(), of a download or of its result: the fetcher is stopped, whatever
\* it is doing, and every staged file removed.  A structure that has never
\* been started has neither a fetcher nor names for files.
Cancel ==
    /\ phase' = [d \in Downloads |->
                    IF d = zip.on_done THEN "cancelled" ELSE phase[d]]
    /\ request' = IF zip.fetch THEN NoRequest ELSE request
    /\ files' = IF zip.fetch THEN unlink(files, Staged \cup {"image"}) ELSE files
    /\ zip' = [zip EXCEPT !.inflate_pending = FALSE, !.on_done = 0,
                          !.state = "IDLE"]
    /\ UNCHANGED <<archive, first, calls>>

Answered == OnFetchFailed \/ OnFetchMeasured \/ OnFetchRange

Next ==
    \/ Answered \/ BodyBegins \/ Replace \/ OtherRequest
    \/ \E d \in Downloads : StartRefused(d) \/ Start(d)
    \/ Tick \/ Cancel

\* The fetcher answers every request (the property Completes of Fetch), and
\* the caller ticks on every turn of its loop.
Fairness == WF_vars(Answered) /\ WF_vars(Tick)

SafeSpec == Init /\ [][Next]_vars

Spec == SafeSpec /\ Fairness

-----------------------------------------------------------------------------
(* What an archive deserves: the verdict of a reader who has all of its      *)
(* cells before it.                                                          *)

\* An end record, near enough to the end to be looked for, that is followed
\* by exactly its comment.
IsEnd(cells, b) ==
    /\ b \in DOMAIN cells /\ b > Len(cells) - TailWindow
    /\ cells[b].kind = "end" /\ cells[b].end.comment = Len(cells) - b

\* The verdict on the packed cells that lie behind the first `start` cells.
DataVerdict(cells, e, start) ==
    IF /\ start + e.compressed_size <= Len(cells)
       /\ \E c \in Contents :
             /\ c.id = e.crc /\ c.size = e.uncompressed_size
             /\ c.packed = e.compressed_size
             /\ e.method # "deflate" => c.size = e.compressed_size
             /\ \A i \in 1 .. c.packed : cells[start + i] = Data(c, i)
    THEN "NONE" ELSE "INFLATE"

\* The verdict on what the entry e points at.
HeaderVerdict(cells, e) ==
    IF e.offset + 1 \in DOMAIN cells /\ cells[e.offset + 1].kind = "local"
    THEN DataVerdict(cells, e, e.offset + 1 + cells[e.offset + 1].skip)
    ELSE "NOT_A_ZIP"

\* The verdict on an entry of the directory that starts at central_offset.
MemberVerdict(cells, e, central_offset) ==
    IF Sentinel \in {e.offset, e.compressed_size, e.uncompressed_size} THEN "NOT_A_ZIP"
    ELSE IF EntryVerdict([central_offset |-> central_offset], e) # "NONE"
    THEN EntryVerdict([central_offset |-> central_offset], e)
    ELSE HeaderVerdict(cells, e)

\* The n-th of the `size` cells behind the first `offset` ones is no entry; it
\* is the wanted member's.
NoEntryAt(cells, offset, size, n) == n > size \/ cells[offset + n].kind # "central"

WantedAt(cells, offset, size, n) ==
    ~NoEntryAt(cells, offset, size, n) /\ cells[offset + n].entry.name = "wanted"

Settled(cells, offset, size, n) ==
    NoEntryAt(cells, offset, size, n) \/ WantedAt(cells, offset, size, n)

\* The verdict on a directory: the first place that settles it.
DirectoryVerdict(cells, offset, size, entries) ==
    LET at == CHOOSE n \in 1 .. entries :
                 /\ Settled(cells, offset, size, n)
                 /\ \A m \in 1 .. n - 1 : ~Settled(cells, offset, size, m)
    IN  IF \A n \in 1 .. entries : ~Settled(cells, offset, size, n) THEN "NO_MEMBER"
        ELSE IF NoEntryAt(cells, offset, size, at) THEN "NOT_A_ZIP"
        ELSE MemberVerdict(cells, cells[offset + at].entry, offset)

\* The verdict on the directory `end` describes, an end record in the b-th
\* cell.  Only a directory outside of the window has to be a small one.
EndVerdict(cells, end, b) ==
    IF Sentinel \in {end.entries, end.central_size, end.central_offset}
    THEN "NOT_A_ZIP"
    ELSE IF end.central_offset + end.central_size >= b THEN "NOT_A_ZIP"
    ELSE IF /\ end.central_offset < Len(cells) - TailWindow
            /\ end.central_size > DirectoryMax
    THEN "UNSUPPORTED"
    ELSE DirectoryVerdict(cells, end.central_offset, end.central_size, end.entries)

LastEnd(cells) ==
    CHOOSE b \in DOMAIN cells :
        IsEnd(cells, b) /\ \A a \in DOMAIN cells : IsEnd(cells, a) => a <= b

Verdict(cells) ==
    IF \A b \in DOMAIN cells : ~IsEnd(cells, b) THEN "NOT_A_ZIP"
    ELSE EndVerdict(cells, cells[LastEnd(cells)].end, LastEnd(cells))

\* The verdicts the archives come with are those.
ASSUME VerdictAssumption == \A a \in Archives : a.verdict = Verdict(a.cells)

-----------------------------------------------------------------------------
(* Properties. *)

TypeOK ==
    /\ archive \in Archives /\ first \in Archives
    /\ request.owner \in {"none", "zip", "other"}
    /\ DOMAIN files \subseteq Staged \cup {"image"}
    /\ DOMAIN zip = DOMAIN Zero
    /\ zip.state \in {"IDLE", "MEASURING", "READING", "LOCATING", "FETCHING",
                      "INFLATING", "READY", "FAILED"}
    /\ zip.error \in {"NONE", "NETWORK", "STAGING", "NOT_A_ZIP", "NO_MEMBER",
                      "UNSUPPORTED", "INFLATE"}
    /\ zip.step \in {"NULL", "window", "central", "header", "member"}
    /\ zip.on_done \in Downloads \cup {0}

\* A download is waiting for its own request or for the tick that unpacks,
\* and never for neither; nobody else's request is taken for its own.  What
\* it stages is gone when it ends, a half-written result included, and only a
\* finished one leaves a result.
StagedFilesOwned ==
    /\ TypeOK
    /\ busy(zip) <=> request.owner = "zip" \/ zip.inflate_pending
    /\ zip.inflate_pending => request = NoRequest /\ zip.state = "INFLATING"
    /\ busy(zip) <=> zip.on_done # 0
    /\ zip.state \in {"READY", "FAILED"} => DOMAIN files \subseteq {"image"}
    /\ zip.state = "READY" => "image" \in DOMAIN files
    /\ zip.state = "FAILED" => "image" \notin DOMAIN files

\* A result is the whole of the wanted member, as the directory of an archive
\* the server had during the download describes it, even if the archive was
\* replaced between the directory and the member, a range came back short, a
\* step was repeated or an earlier run left its files behind.
ResultIsMember ==
    zip.state = "READY" =>
        \E c \in Contents, a \in {first, archive} :
            /\ files["image"] = <<c>>
            /\ \E i \in DOMAIN a.cells :
                  /\ a.cells[i].kind = "central"
                  /\ a.cells[i].entry.name = "wanted"
                  /\ a.cells[i].entry.crc = c.id
                  /\ a.cells[i].entry.uncompressed_size = c.size

\* The verdict on an archive that stayed the same is the one its contents
\* deserve: a directory that breaks off is never reported as one without the
\* member, a directory outside the window is found, and the member is read
\* from where it is.  Only the way there may fail otherwise, and a server
\* that does not say how long the archive is.
VerdictDeserved ==
    /\ zip.state \in {"READY", "FAILED"}
    /\ archive = first /\ zip.zip_size > 0
    /\ zip.error \notin {"NETWORK", "STAGING"}
    => zip.error = archive.verdict

C == INSTANCE Completion WITH Requests <- Downloads

\* A download that was accepted ends in exactly one callback unless it is
\* cancelled first, and one that was refused in none.
Completes == C!Spec

=============================================================================
