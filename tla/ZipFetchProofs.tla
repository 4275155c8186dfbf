--------------------------- MODULE ZipFetchProofs ---------------------------
(***************************************************************************)
(* Proofs about the download of a member of a remote archive, for every    *)
(* set of downloads, archives and replacements, every size of the tail     *)
(* window and every limit: nothing but a finished result is left in the    *)
(* staging directory, the result is the member, the chain of requests      *)
(* comes to the verdict that the whole archive deserves, and the caller is *)
(* answered as Completion promises.                                        *)
(*                                                                         *)
(* The inductive invariant says which request belongs to which state, from *)
(* which archive the entry in hand is, and, while the archive has not been *)
(* replaced, how much of the verdict what was read so far has settled.     *)
(***************************************************************************)
EXTENDS ZipFetch, WellFoundedInduction, SequenceTheorems, TLAPS

-----------------------------------------------------------------------------
(* The invariant. *)

\* The values of enum inkwell_zip_fetch_state and of its errors.
States == {"IDLE", "MEASURING", "READING", "LOCATING", "FETCHING", "INFLATING",
           "READY", "FAILED"}
Errors == {"NONE", "NETWORK", "STAGING", "NOT_A_ZIP", "NO_MEMBER", "UNSUPPORTED",
           "INFLATE"}

\* An entry without a Sentinel, as zip_find_member() returns it.
FoundEntries == [name : STRING, method : STRING, crc : STRING, offset : Nat,
                 compressed_size : Nat, uncompressed_size : Nat]

\* struct inkwell_zip_fetch.
ZipRecords ==
    [state : States, error : Errors, fetch : BOOLEAN, on_done : Downloads \cup {0},
     step : Staged \cup {"NULL"}, retried : BOOLEAN, zip_size : Nat,
     window_offset : Nat, window_len : Nat, directory_only : BOOLEAN,
     central_offset : Nat, central_entries : Nat, entry : FoundEntries \cup {NoEntry},
     data_offset : Nat, inflate_pending : BOOLEAN]

\* The requests zip_range() makes.
Ranges == [owner : {"zip"}, file : Staged, first : Nat, last : Int, output_max : Nat]

\* The files in the staging directory.
Names == Staged \cup {"image"}

\* The types.
Typed ==
    /\ archive \in Archives /\ first \in Archives
    /\ request \in {NoRequest, [owner |-> "zip"], [owner |-> "other"]} \cup Ranges
    /\ DOMAIN files \subseteq Names
    /\ zip \in ZipRecords
    /\ phase \in [Downloads -> {"unused", "refused", "accepted", "cancelled"}]
    /\ calls \in [Downloads -> {0, 1}]

\* What a download waits for, and what is left when it has ended.
Owned ==
    /\ busy(zip) <=> request.owner = "zip" \/ zip.inflate_pending
    /\ zip.inflate_pending <=> zip.state = "INFLATING"
    /\ zip.inflate_pending => request = NoRequest
    /\ busy(zip) <=> zip.on_done # 0
    /\ busy(zip) => zip.fetch
    /\ zip.state \in {"READY", "FAILED"} => DOMAIN files \subseteq {"image"}
    /\ zip.state = "READY" => "image" \in DOMAIN files
    /\ zip.state = "FAILED" => "image" \notin DOMAIN files

\* The step a structure is at, by its state.
StepOf(z) ==
    CASE z.state = "MEASURING" -> "NULL"
      [] z.state = "READING" -> IF z.directory_only THEN "central" ELSE "window"
      [] z.state = "LOCATING" -> "header"
      [] z.state = "FETCHING" -> "member"

\* Where the range starts that it asks for.
StartOf(z) ==
    CASE z.state = "READING" -> z.window_offset
      [] z.state = "LOCATING" -> z.entry.offset
      [] z.state = "FETCHING" -> z.data_offset

\* The request is the one of the step.
Asked ==
    request.owner = "zip" =>
        /\ zip.step = StepOf(zip)
        /\ zip.state = "MEASURING" => zip.zip_size = 0 /\ ~zip.directory_only
        /\ zip.state # "MEASURING" =>
              request \in Ranges /\ request.file = zip.step /\ request.first = StartOf(zip)

\* The directory of the archive lists the wanted member as e.
Lists(a, e) ==
    \E i \in DOMAIN a.cells :
        /\ a.cells[i].kind = "central"
        /\ a.cells[i].entry = e /\ e.name = "wanted"

\* The entry in hand is from an archive of this download.
EntryListed(z) ==
    z.state \in {"LOCATING", "FETCHING", "INFLATING"} =>
        \E a \in {first, archive} : Lists(a, z.entry)

\* Where the tail window of an archive begins.
TailOffset(cells) == IF Len(cells) > TailWindow THEN Len(cells) - TailWindow ELSE 0

\* `body` is what the archive has from `offset` on.
Part(body, cells, offset) ==
    /\ body \in Seq(Cells)
    /\ offset + Len(body) <= Len(cells)
    /\ \A i \in 1 .. Len(body) : body[i] = cells[offset + i]

\* How far the verdict on the archive has been settled by what was read of it.
OnTheWay(z, cells) ==
    /\ z.state = "READING" /\ ~z.directory_only =>
          /\ z.zip_size = Len(cells)
          /\ z.window_offset = TailOffset(cells)
          /\ z.window_len = Len(cells) - TailOffset(cells)
    /\ z.state = "READING" /\ z.directory_only =>
          /\ z.central_offset = z.window_offset
          /\ Verdict(cells) = DirectoryVerdict(cells, z.window_offset, z.window_len,
                                               z.central_entries)
    /\ z.state = "LOCATING" => Verdict(cells) = HeaderVerdict(cells, z.entry)
    /\ z.state \in {"FETCHING", "INFLATING"} =>
          Verdict(cells) = DataVerdict(cells, z.entry, z.data_offset)

\* The member's file has what the server sent of it.
Landed ==
    zip.state = "INFLATING" =>
        "member" \in DOMAIN files /\ Part(files["member"], archive.cells, zip.data_offset)

\* What is known as long as the archive has not been replaced.
Unswapped == archive = first => OnTheWay(zip, archive.cells) /\ Landed

\* on_done is the one download whose answer is owed.
OneOwed ==
    \A d \in Downloads :
        /\ (phase[d] = "accepted" /\ calls[d] = 0) <=> zip.on_done = d
        /\ phase[d] # "accepted" => calls[d] = 0

\* The inductive invariant.
Inv ==
    /\ Typed /\ Owned /\ Asked /\ OneOwed
    /\ EntryListed(zip) /\ ResultIsMember
    /\ Unswapped /\ VerdictDeserved

-----------------------------------------------------------------------------
(* Sets of places. *)

\* A set of natural numbers that is not empty has a least element.
LEMMA Least ==
    ASSUME NEW T \in SUBSET Nat, T # {}
    PROVE  \E x \in T : \A y \in T : x <= y
<1> DEFINE R == OpToRel(<, Nat)
<1>1. IsWellFoundedOn(R, Nat)
  BY NatLessThanWellFounded
<1>2. \A x, y \in Nat : <<y, x>> \in R <=> y < x
  BY DEF OpToRel
<1> HIDE DEF R
<1>3. PICK x \in T : \A y \in T : ~(<<y, x>> \in R)
  BY <1>1, WFMin
<1>4. ASSUME NEW y \in T PROVE x <= y
  <2>1. x \in Nat /\ y \in Nat
    OBVIOUS
  <2>2. ~(y < x)
    BY <1>2, <1>3, <2>1
  <2> QED BY <2>1, <2>2
<1> QED BY <1>4

\* A set of places of a sequence that is not empty has a last one.
LEMMA Greatest ==
    ASSUME NEW n \in Nat, NEW T \in SUBSET (1 .. n), T # {}
    PROVE  \E x \in T : \A y \in T : x >= y
<1> DEFINE U == {k \in Nat : \E x \in T : k = n - x}
<1>1. U # {} /\ U \in SUBSET Nat
  <2>1. PICK x \in T : TRUE
    OBVIOUS
  <2>2. n - x \in U
    BY <2>1
  <2> QED BY <2>2
<1>2. PICK u \in U : \A v \in U : u <= v
  BY <1>1, Least
<1>3. PICK x \in T : u = n - x
  BY <1>2
<1>4. \A y \in T : x >= y
  BY <1>2, <1>3
<1> QED BY <1>4

\* So Min and Max are what their names say.
LEMMA MinIs ==
    ASSUME NEW T \in SUBSET Nat, T # {}
    PROVE  Min(T) \in T /\ \A y \in T : Min(T) <= y
<1>1. \E x \in T : \A y \in T : x <= y
  BY Least
<1> QED BY <1>1 DEF Min

\* The same, of the places of a sequence.
LEMMA MaxIs ==
    ASSUME NEW n \in Nat, NEW T \in SUBSET (1 .. n), T # {}
    PROVE  Max(T) \in T /\ \A y \in T : Max(T) >= y
<1>1. \E x \in T : \A y \in T : x >= y
  BY Greatest
<1> QED BY <1>1 DEF Max

-----------------------------------------------------------------------------
(* Archives and what is read of them. *)

\* What the assumptions say of one archive.
LEMMA ArchiveTyped ==
    ASSUME NEW a \in Archives
    PROVE  a.cells \in Seq(Cells) /\ a.verdict = Verdict(a.cells)
BY ZipAssumption, VerdictAssumption

\* What the records of a cell are, by its kind.
LEMMA CellTyped ==
    ASSUME NEW c \in Cells
    PROVE  /\ c.kind = "local" => c.skip \in Nat
           /\ c.kind = "central" => c.entry \in EntryRecords
           /\ c.kind = "end" => c.end \in EndRecords
BY DEF Cells, Junk

\* A subsequence lies in its sequence.
LEMMA SliceIs ==
    ASSUME NEW s \in Seq(Cells), NEW m \in Nat, NEW n \in Nat, m + n <= Len(s)
    PROVE  LET b == SubSeq(s, m + 1, m + n)
           IN  Len(b) = n /\ Part(b, s, m)
<1> DEFINE b == SubSeq(s, m + 1, m + n)
<1>1. Len(s) \in Nat
  BY LenProperties
<1>2. CASE n = 0
  <2>1. b = << >>
    BY <1>1, <1>2, SubSeqEmpty
  <2> QED BY <1>2, <1>1, <2>1 DEF Part
<1>3. CASE n > 0
  <2>1. /\ b \in Seq(Cells) /\ Len(b) = (m + n) - (m + 1) + 1
        /\ \A i \in 1 .. (m + n) - (m + 1) + 1 : b[i] = s[m + 1 + i - 1]
    BY <1>1, <1>3, SubSeqProperties
  <2>2. Len(b) = n
    BY <1>3, <2>1
  <2>3. \A i \in 1 .. n : b[i] = s[m + i]
    BY <1>3, <2>1
  <2> QED BY <2>1, <2>2, <2>3 DEF Part
<1> QED BY <1>2, <1>3

\* What the server sends is a part of the archive, from the first cell asked
\* for.
LEMMA RepliesAreParts ==
    ASSUME archive \in Archives, request \in Ranges, NEW body \in Replies
    PROVE  Part(body, archive.cells, request.first)
<1> DEFINE cells == archive.cells
           last == IF request.last < Len(cells) - 1 THEN request.last ELSE Len(cells) - 1
<1>1. cells \in Seq(Cells) /\ Len(cells) \in Nat
  BY ArchiveTyped, LenProperties
<1>2. request.first \in Nat /\ request.last \in Int
  BY DEF Ranges
<1>3. PICK n \in {last, last - 1} \cap (request.first .. last) :
         body = SubSeq(cells, request.first + 1, n + 1)
  BY DEF Replies
<1>4. n \in Nat /\ n <= Len(cells) - 1 /\ n + 1 - request.first \in Nat
  BY <1>1, <1>2
<1>5. n + 1 = request.first + (n + 1 - request.first)
  BY <1>2, <1>4
<1> QED BY <1>1, <1>2, <1>3, <1>4, <1>5, SliceIs

\* A slice of a part is a part.
LEMMA PartOfPart ==
    ASSUME NEW cells \in Seq(Cells), NEW window, NEW wo \in Nat, Part(window, cells, wo),
           NEW m \in Nat, NEW n \in Nat, m + n <= Len(window)
    PROVE  LET b == SubSeq(window, m + 1, m + n)
           IN  Len(b) = n /\ Part(b, cells, wo + m)
<1> DEFINE b == SubSeq(window, m + 1, m + n)
<1>1. Len(window) \in Nat /\ Len(cells) \in Nat /\ window \in Seq(Cells)
  BY LenProperties DEF Part
<1>2. Len(b) = n /\ Part(b, window, m)
  BY <1>1, SliceIs
<1>3. \A i \in 1 .. n : b[i] = window[m + i] /\ m + i \in 1 .. Len(window)
  BY <1>1, <1>2 DEF Part
<1>4. ASSUME NEW i \in 1 .. n PROVE b[i] = cells[(wo + m) + i]
  <2>1. window[m + i] = cells[wo + (m + i)]
    BY <1>3 DEF Part
  <2>2. wo + (m + i) = (wo + m) + i
    OBVIOUS
  <2> QED BY <1>3, <2>1, <2>2
<1>5. (wo + m) + n <= Len(cells)
  BY <1>1 DEF Part
<1> QED BY <1>2, <1>4, <1>5 DEF Part

\* The end records zip_find_end() chooses from.
EndsIn(window) == {b \in DOMAIN window : /\ window[b].kind = "end"
                                         /\ window[b].end.comment = Len(window) - b}

\* The last of them is one.
LEMMA LastEndIn ==
    ASSUME NEW window \in Seq(Cells), EndsIn(window) # {}
    PROVE  /\ Max(EndsIn(window)) \in EndsIn(window)
           /\ Max(EndsIn(window)) \in 1 .. Len(window)
           /\ \A b \in EndsIn(window) : Max(EndsIn(window)) >= b
           /\ window[Max(EndsIn(window))].end \in EndRecords
<1>1. Len(window) \in Nat /\ DOMAIN window = 1 .. Len(window)
  BY LenProperties
<1>2. EndsIn(window) \in SUBSET (1 .. Len(window))
  BY <1>1 DEF EndsIn
<1>3. /\ Max(EndsIn(window)) \in EndsIn(window)
      /\ \A b \in EndsIn(window) : Max(EndsIn(window)) >= b
  BY <1>1, <1>2, MaxIs
<1>4. Max(EndsIn(window)) \in 1 .. Len(window) /\ window[Max(EndsIn(window))].kind = "end"
  BY <1>2, <1>3 DEF EndsIn
<1>5. window[Max(EndsIn(window))] \in Cells
  BY <1>4, ElementOfSeq
<1> QED BY <1>3, <1>4, <1>5, CellTyped

\* zip_find_end() in terms of them.
LEMMA FindEndIs ==
    ASSUME NEW window \in Seq(Cells), NEW wo \in Nat
    PROVE  LET b == Max(EndsIn(window))
               last == window[b].end
           IN  zip_find_end(window, wo) =
                 IF EndsIn(window) = {} THEN {}
                 ELSE IF Sentinel \in {last.entries, last.central_size, last.central_offset}
                      THEN {}
                 ELSE IF last.central_offset + last.central_size > wo + b - 1 THEN {}
                 ELSE {last}
BY DEF zip_find_end, EndsIn

\* What it finds has numbers in it, and a directory before the record.
LEMMA FoundEndTyped ==
    ASSUME NEW window \in Seq(Cells), NEW wo \in Nat, NEW end \in zip_find_end(window, wo)
    PROVE  /\ end.entries \in Nat /\ end.central_size \in Nat /\ end.central_offset \in Nat
           /\ end.central_offset + end.central_size < wo + Len(window)
<1> DEFINE b == Max(EndsIn(window))
<1>1. EndsIn(window) # {} /\ end = window[b].end
  BY FindEndIs
<1>2. /\ Sentinel \notin {end.entries, end.central_size, end.central_offset}
      /\ ~(end.central_offset + end.central_size > wo + b - 1)
  BY <1>1, FindEndIs
<1>3. b \in 1 .. Len(window) /\ end \in EndRecords /\ Len(window) \in Nat
  BY <1>1, LastEndIn, LenProperties
<1>4. end.entries \in Nat /\ end.central_size \in Nat /\ end.central_offset \in Nat
  BY <1>2, <1>3 DEF EndRecords, Number
<1> QED BY <1>2, <1>3, <1>4

\* In the window at the end of an archive they are the archive's.
LEMMA EndsOfWindow ==
    ASSUME NEW cells \in Seq(Cells), NEW window, Part(window, cells, TailOffset(cells)),
           Len(window) = Len(cells) - TailOffset(cells),
           NEW b \in 1 .. Len(window)
    PROVE  /\ b \in EndsIn(window) <=> IsEnd(cells, TailOffset(cells) + b)
           /\ window[b] = cells[TailOffset(cells) + b]
<1> DEFINE wo == TailOffset(cells)
<1>1. Len(cells) \in Nat /\ DOMAIN cells = 1 .. Len(cells) /\ Len(window) \in Nat
      /\ DOMAIN window = 1 .. Len(window)
  BY LenProperties DEF Part
<1>2. wo \in Nat /\ wo >= Len(cells) - TailWindow /\ TailWindow \in Nat
  BY <1>1, ZipAssumption DEF TailOffset
<1>3. window[b] = cells[wo + b]
  BY DEF Part
<1>4. Len(window) - b = Len(cells) - (wo + b)
  BY <1>1, <1>2
<1>5. wo + b \in DOMAIN cells /\ wo + b > Len(cells) - TailWindow
  BY <1>1, <1>2
<1> QED BY <1>1, <1>3, <1>4, <1>5 DEF EndsIn, IsEnd

\* An end record near enough to the end of the archive is in the window.
LEMMA EndInWindow ==
    ASSUME NEW cells \in Seq(Cells), NEW b \in DOMAIN cells, IsEnd(cells, b)
    PROVE  b - TailOffset(cells) \in 1 .. Len(cells) - TailOffset(cells)
<1>1. Len(cells) \in Nat /\ DOMAIN cells = 1 .. Len(cells) /\ TailWindow \in Nat
  BY LenProperties, ZipAssumption
<1> QED BY <1>1 DEF IsEnd, TailOffset

\* The window settles what the end record settles, and leaves the rest to the
\* directory.
LEMMA EndSettled ==
    ASSUME NEW cells \in Seq(Cells), NEW window, Part(window, cells, TailOffset(cells)),
           Len(window) = Len(cells) - TailOffset(cells)
    PROVE  LET ends == zip_find_end(window, TailOffset(cells))
           IN  /\ ends = {} => Verdict(cells) = "NOT_A_ZIP"
               /\ \A end \in ends :
                     Verdict(cells) =
                       IF /\ end.central_offset < Len(cells) - TailWindow
                          /\ end.central_size > DirectoryMax
                       THEN "UNSUPPORTED"
                       ELSE DirectoryVerdict(cells, end.central_offset, end.central_size,
                                             end.entries)
<1> DEFINE wo == TailOffset(cells)
           b  == Max(EndsIn(window))
           last == window[b].end
<1>a. Len(cells) \in Nat /\ DOMAIN cells = 1 .. Len(cells)
  BY LenProperties
<1>1. Len(cells) \in Nat /\ Len(window) \in Nat /\ window \in Seq(Cells) /\ wo \in Nat
  <2>1. window \in Seq(Cells)
    BY DEF Part
  <2>2. TailWindow \in Nat
    BY ZipAssumption
  <2> QED BY <1>a, <2>1, <2>2, LenProperties DEF TailOffset
<1>2. CASE EndsIn(window) = {}
  <2>1. zip_find_end(window, wo) = {}
    BY <1>1, <1>2, FindEndIs
  <2>2. ASSUME NEW a \in DOMAIN cells, IsEnd(cells, a) PROVE FALSE
    <3>1. a - wo \in 1 .. Len(window) /\ wo + (a - wo) = a
      BY <1>1, <1>a, <2>2, EndInWindow
    <3>2. a - wo \in EndsIn(window)
      BY <2>2, <3>1, EndsOfWindow
    <3> QED BY <1>2, <3>2
  <2>3. Verdict(cells) = "NOT_A_ZIP"
    BY <2>2 DEF Verdict
  <2> QED BY <2>1, <2>3
<1>3. CASE EndsIn(window) # {}
  <2>1. /\ b \in EndsIn(window) /\ b \in 1 .. Len(window) /\ last \in EndRecords
        /\ \A a \in EndsIn(window) : b >= a
    BY <1>1, <1>3, LastEndIn
  <2>2. IsEnd(cells, wo + b) /\ window[b] = cells[wo + b] /\ wo + b \in DOMAIN cells
    BY <2>1, EndsOfWindow DEF IsEnd
  <2>3. ASSUME NEW a \in DOMAIN cells, IsEnd(cells, a) PROVE a <= wo + b
    <3>1. a - wo \in 1 .. Len(window) /\ wo + (a - wo) = a
      BY <1>1, <1>a, <2>3, EndInWindow
    <3>2. a - wo \in EndsIn(window)
      BY <2>3, <3>1, EndsOfWindow
    <3>3. b >= a - wo
      BY <2>1, <3>2
    <3> QED BY <1>1, <1>a, <2>1, <3>3
  <2>4. LastEnd(cells) = wo + b
    <3>1. /\ LastEnd(cells) \in DOMAIN cells /\ IsEnd(cells, LastEnd(cells))
          /\ \A a \in DOMAIN cells : IsEnd(cells, a) => a <= LastEnd(cells)
      BY <2>2, <2>3 DEF LastEnd
    <3>2. LastEnd(cells) <= wo + b /\ wo + b <= LastEnd(cells)
      BY <2>2, <2>3, <3>1
    <3> QED BY <1>1, <1>a, <2>1, <3>1, <3>2
  <2>5. Verdict(cells) = EndVerdict(cells, last, wo + b)
    BY <2>2, <2>4 DEF Verdict
  <2>6. zip_find_end(window, wo) =
          IF Sentinel \in {last.entries, last.central_size, last.central_offset} THEN {}
          ELSE IF last.central_offset + last.central_size > wo + b - 1 THEN {}
          ELSE {last}
    BY <1>1, <1>3, FindEndIs
  <2>7. CASE Sentinel \in {last.entries, last.central_size, last.central_offset}
    BY <2>5, <2>6, <2>7 DEF EndVerdict
  <2>8. CASE Sentinel \notin {last.entries, last.central_size, last.central_offset}
    <3>1. last.central_size \in Nat /\ last.central_offset \in Nat
      BY <2>1, <2>8 DEF EndRecords, Number
    <3>2. last.central_offset + last.central_size > wo + b - 1
            <=> last.central_offset + last.central_size >= wo + b
      BY <1>1, <2>1, <3>1
    <3> QED BY <2>5, <2>6, <2>8, <3>2 DEF EndVerdict
  <2> QED BY <2>7, <2>8
<1> QED BY <1>2, <1>3

-----------------------------------------------------------------------------
(* Walking the directory. *)

\* The places at which zip_find_member() can stop.
Stops(central, entries) ==
    {n \in 1 .. entries :
        n > Len(central) \/ central[n].kind # "central" \/ central[n].entry.name = "wanted"}

\* The walk in terms of them.
LEMMA FindMemberIs ==
    ASSUME NEW central \in Seq(Cells), NEW entries \in Nat
    PROVE  LET n == Min(Stops(central, entries))
               e == central[n].entry
           IN  zip_find_member(central, entries, "wanted") =
                 IF Stops(central, entries) = {} THEN [search |-> "ABSENT"]
                 ELSE IF n > Len(central) \/ central[n].kind # "central"
                      THEN [search |-> "MALFORMED"]
                 ELSE IF Sentinel \in {e.offset, e.compressed_size, e.uncompressed_size}
                      THEN [search |-> "MALFORMED"]
                 ELSE [search |-> "FOUND", entry |-> e]
<1> DEFINE broken == {n \in 1 .. entries : n > Len(central) \/ central[n].kind # "central"}
           hits == {n \in (1 .. entries) \ broken : central[n].entry.name = "wanted"}
<1>1. broken \cup hits = Stops(central, entries)
  BY DEF Stops
<1>2. Stops(central, entries) # {} => Min(Stops(central, entries)) \in Stops(central, entries)
  <2>1. Stops(central, entries) \in SUBSET Nat
    BY DEF Stops
  <2> QED BY <2>1, MinIs
<1>3. Stops(central, entries) # {} =>
        (Min(Stops(central, entries)) \in broken <=>
           \/ Min(Stops(central, entries)) > Len(central)
           \/ central[Min(Stops(central, entries))].kind # "central")
  BY <1>2 DEF Stops
<1> QED BY <1>1, <1>3 DEF zip_find_member

\* An entry that is found is one of the cells, without a Sentinel.
LEMMA FoundMemberTyped ==
    ASSUME NEW central \in Seq(Cells), NEW entries \in Nat,
           zip_find_member(central, entries, "wanted").search = "FOUND"
    PROVE  LET e == zip_find_member(central, entries, "wanted").entry
           IN  /\ e \in FoundEntries
               /\ \E i \in 1 .. Len(central) :
                     central[i].kind = "central" /\ central[i].entry = e /\ e.name = "wanted"
<1> DEFINE n == Min(Stops(central, entries))
           e == zip_find_member(central, entries, "wanted").entry
<1>1. /\ Stops(central, entries) # {} /\ ~(n > Len(central)) /\ central[n].kind = "central"
      /\ e = central[n].entry
      /\ Sentinel \notin {e.offset, e.compressed_size, e.uncompressed_size}
  BY FindMemberIs
<1>2. n \in Stops(central, entries)
  <2>1. Stops(central, entries) \in SUBSET Nat
    BY DEF Stops
  <2> QED BY <1>1, <2>1, MinIs
<1>3. n \in 1 .. Len(central) /\ e.name = "wanted"
  BY <1>1, <1>2, LenProperties DEF Stops
<1>4. e \in EntryRecords
  BY <1>1, <1>3, CellTyped, ElementOfSeq
<1>5. e \in FoundEntries
  BY <1>1, <1>4 DEF EntryRecords, FoundEntries, Number
<1> QED BY <1>1, <1>3, <1>5

\* The walk settles what the directory settles, and leaves the rest to the entry.
LEMMA WalkSettles ==
    ASSUME NEW cells \in Seq(Cells), NEW central, NEW offset \in Nat,
           Part(central, cells, offset), NEW entries \in Nat
    PROVE  LET found == zip_find_member(central, entries, "wanted")
               verdict == DirectoryVerdict(cells, offset, Len(central), entries)
           IN  /\ found.search \in {"MALFORMED", "ABSENT", "FOUND"}
               /\ found.search = "MALFORMED" => verdict = "NOT_A_ZIP"
               /\ found.search = "ABSENT" => verdict = "NO_MEMBER"
               /\ found.search = "FOUND" =>
                     verdict = MemberVerdict(cells, found.entry, offset)
                     /\ Sentinel \notin {found.entry.offset, found.entry.compressed_size,
                                         found.entry.uncompressed_size}
<1> DEFINE size == Len(central)
           found == zip_find_member(central, entries, "wanted")
           verdict == DirectoryVerdict(cells, offset, size, entries)
<1>1. central \in Seq(Cells) /\ size \in Nat
  BY LenProperties DEF Part
<1>2. ASSUME NEW n \in 1 .. entries
      PROVE  /\ n \in Stops(central, entries) <=> Settled(cells, offset, size, n)
             /\ NoEntryAt(cells, offset, size, n)
                  <=> n > Len(central) \/ central[n].kind # "central"
  <2>1. CASE n > size
    BY <2>1 DEF Stops, Settled, NoEntryAt
  <2>2. CASE ~(n > size)
    <3>1. central[n] = cells[offset + n]
      BY <1>1, <2>2 DEF Part
    <3> QED BY <2>2, <3>1 DEF Stops, Settled, NoEntryAt, WantedAt
  <2> QED BY <2>1, <2>2
<1>3. CASE Stops(central, entries) = {}
  <2>1. found = [search |-> "ABSENT"]
    BY <1>1, <1>3, FindMemberIs
  <2>2. verdict = "NO_MEMBER"
    BY <1>2, <1>3 DEF DirectoryVerdict
  <2> QED BY <2>1, <2>2
<1>4. CASE Stops(central, entries) # {}
  <2> DEFINE n == Min(Stops(central, entries))
             at == CHOOSE m \in 1 .. entries :
                      /\ Settled(cells, offset, size, m)
                      /\ \A k \in 1 .. m - 1 : ~Settled(cells, offset, size, k)
             e == central[n].entry
  <2>1. n \in Stops(central, entries) /\ \A m \in Stops(central, entries) : n <= m
    <3>1. Stops(central, entries) \in SUBSET Nat
      BY DEF Stops
    <3> QED BY <1>4, <3>1, MinIs
  <2>2. n \in 1 .. entries
    BY <2>1 DEF Stops
  <2>3. /\ Settled(cells, offset, size, n)
        /\ \A k \in 1 .. n - 1 : ~Settled(cells, offset, size, k)
    <3>1. ASSUME NEW k \in 1 .. n - 1, Settled(cells, offset, size, k) PROVE FALSE
      <4>1. k \in Stops(central, entries)
        BY <1>2, <2>2, <3>1
      <4>2. n <= k
        BY <2>1, <4>1
      <4> QED BY <2>2, <4>2
    <3> QED BY <1>2, <2>1, <2>2, <3>1
  <2>4. at = n
    <3>1. /\ at \in 1 .. entries /\ Settled(cells, offset, size, at)
          /\ \A k \in 1 .. at - 1 : ~Settled(cells, offset, size, k)
      BY <2>2, <2>3
    <3>2. ~(at < n) /\ ~(n < at)
      <4> HIDE DEF at
      <4> QED BY <2>2, <2>3, <3>1
    <3> QED BY <2>2, <3>1, <3>2
  <2>5. verdict = IF NoEntryAt(cells, offset, size, n) THEN "NOT_A_ZIP"
                  ELSE MemberVerdict(cells, cells[offset + n].entry, offset)
    <3>1. ~(\A m \in 1 .. entries : ~Settled(cells, offset, size, m))
      BY <2>2, <2>3
    <3>2. verdict = IF NoEntryAt(cells, offset, size, at) THEN "NOT_A_ZIP"
                    ELSE MemberVerdict(cells, cells[offset + at].entry, offset)
      BY <3>1 DEF DirectoryVerdict
    <3> QED BY <2>4, <3>2
  <2>6. CASE NoEntryAt(cells, offset, size, n)
    <3>1. found = [search |-> "MALFORMED"]
      BY <1>1, <1>2, <1>4, <2>2, <2>6, FindMemberIs
    <3> QED BY <2>5, <2>6, <3>1
  <2>7. CASE ~NoEntryAt(cells, offset, size, n)
    <3>1. central[n] = cells[offset + n]
      <4> HIDE DEF n
      <4>1. ~(n > Len(central))
        BY <2>7 DEF NoEntryAt
      <4>2. n \in 1 .. Len(central)
        BY <1>1, <2>2, <4>1
      <4> QED BY <4>2 DEF Part
    <3>2. verdict = MemberVerdict(cells, e, offset)
      BY <2>5, <2>7, <3>1
    <3>3. found = IF Sentinel \in {e.offset, e.compressed_size, e.uncompressed_size}
                  THEN [search |-> "MALFORMED"] ELSE [search |-> "FOUND", entry |-> e]
      BY <1>1, <1>2, <1>4, <2>2, <2>7, FindMemberIs
    <3> QED BY <3>2, <3>3 DEF MemberVerdict
  <2> QED BY <2>6, <2>7
<1> QED BY <1>3, <1>4

\* The unpacking settles the rest: a member that has come whole unpacks to a
\* content of the entry's length and CRC just if the archive deserves it.
LEMMA UnpackingSettles ==
    ASSUME NEW cells \in Seq(Cells), NEW body, NEW z \in ZipRecords,
           Part(body, cells, z.data_offset), Len(body) = z.entry.compressed_size
    PROVE  DataVerdict(cells, z.entry, z.data_offset)
             = IF Unpacked(z, body) = {} THEN "INFLATE" ELSE "NONE"
<1> DEFINE e == z.entry
           start == z.data_offset
<1>1. Len(cells) \in Nat /\ Len(body) \in Nat /\ body \in Seq(Cells) /\ start \in Nat
      /\ start + Len(body) <= Len(cells)
  BY LenProperties DEF Part, ZipRecords
<1>2. ASSUME NEW c \in Contents
      PROVE  c \in Whole(body)
               <=> c.packed = Len(body) /\ \A i \in 1 .. c.packed : cells[start + i] = Data(c, i)
  <2>1. c.packed \in Nat
    BY DEF Contents
  <2>2. body = [i \in 1 .. Len(body) |-> body[i]] /\ DOMAIN body = 1 .. Len(body)
    BY <1>1, LenProperties
  <2>3. body = [i \in 1 .. c.packed |-> Data(c, i)]
          <=> c.packed = Len(body) /\ \A i \in 1 .. c.packed : body[i] = Data(c, i)
    <3>1. ASSUME body = [i \in 1 .. c.packed |-> Data(c, i)]
          PROVE  c.packed = Len(body) /\ \A i \in 1 .. c.packed : body[i] = Data(c, i)
      <4>1. DOMAIN body = 1 .. c.packed
        BY <3>1
      <4>2. c.packed = Len(body)
        BY <1>1, <2>1, <2>2, <4>1
      <4> QED BY <3>1, <4>2
    <3>2. ASSUME c.packed = Len(body), \A i \in 1 .. c.packed : body[i] = Data(c, i)
          PROVE  body = [i \in 1 .. c.packed |-> Data(c, i)]
      BY <2>2, <3>2
    <3> QED BY <3>1, <3>2
  <2>4. \A i \in 1 .. Len(body) : body[i] = cells[start + i]
    BY DEF Part
  <2> QED BY <2>3, <2>4 DEF Whole
<1>3. ASSUME NEW c \in Contents
      PROVE  c \in Unpacked(z, body)
               <=> /\ c.id = e.crc /\ c.size = e.uncompressed_size
                   /\ c.packed = e.compressed_size
                   /\ e.method # "deflate" => c.size = e.compressed_size
                   /\ \A i \in 1 .. c.packed : cells[start + i] = Data(c, i)
  <2>1. c.size \in Nat
    BY DEF Contents
  <2> QED BY <1>2, <2>1 DEF Unpacked, inflate, stored
<1>4. Unpacked(z, body) \subseteq Contents
  BY DEF Unpacked, inflate, stored, Whole
<1> QED BY <1>1, <1>3, <1>4 DEF DataVerdict

-----------------------------------------------------------------------------
(* The download. *)

\* A structure and staged files as a handler has them in hand.
InHand(z, fs) ==
    /\ z \in ZipRecords
    /\ z.on_done = zip.on_done /\ z.on_done # 0
    /\ z.fetch /\ ~z.inflate_pending
    /\ DOMAIN fs \subseteq Names

\* The files `fs` have a result that the directory of an archive describes as e.
Result(e, fs) ==
    /\ "image" \in DOMAIN fs
    /\ \E c \in Contents, a \in {first, archive} :
          /\ fs["image"] = <<c>> /\ Lists(a, e)
          /\ e.crc = c.id /\ e.uncompressed_size = c.size

\* What a handler does to the caller of the download it has in hand: nothing, or
\* its answer.
Answers ==
    calls' \in {calls, [d \in Downloads |-> calls[d] + IF d = zip.on_done THEN 1 ELSE 0]}

\* A structure that is initialised, whatever an earlier run has left behind.
LEMMA InitInv == Init => Inv
<1> SUFFICES ASSUME Init PROVE Inv
  OBVIOUS
<1>1. Zero \in ZipRecords
  BY DEF Zero, ZipRecords, States, Errors
<1>2. Typed
  <2>1. DOMAIN files \subseteq Names
    BY DEF Init, Names
  <2> QED BY <1>1, <2>1 DEF Init, Typed
<1>3. Owned /\ Asked
  BY DEF Init, Owned, Asked, Zero, busy, NoRequest
<1>4. OneOwed
  BY ZipAssumption DEF Init, OneOwed, Zero
<1>5. EntryListed(zip) /\ ResultIsMember /\ VerdictDeserved
  BY DEF Init, EntryListed, ResultIsMember, VerdictDeserved, Zero
<1>6. Unswapped
  BY DEF Init, Unswapped, OnTheWay, Landed, Zero
<1> QED BY <1>2, <1>3, <1>4, <1>5, <1>6 DEF Inv

\* zip_finish() with a result that is the member's, or with an error that the
\* archive deserves.
LEMMA FinishInv ==
    ASSUME Inv, NEW z, NEW fs, InHand(z, fs),
           NEW state \in {"READY", "FAILED"}, NEW error \in Errors,
           zip_finish(z, state, error, fs), UNCHANGED <<archive, first, phase>>,
           state = "READY" => Result(z.entry, fs),
           archive = first /\ z.zip_size > 0 /\ error \notin {"NETWORK", "STAGING"}
             => error = Verdict(archive.cells)
    PROVE  Inv' /\ Answers
<1> DEFINE gone == Staged \cup IF state = "FAILED" THEN {"image"} ELSE {}
<1>1. zip' = [z EXCEPT !.state = state, !.error = error, !.on_done = 0]
  BY DEF zip_finish
<1>2. /\ zip' \in ZipRecords /\ zip'.state = state /\ zip'.error = error /\ zip'.on_done = 0
      /\ zip'.zip_size = z.zip_size /\ ~zip'.inflate_pending
  BY <1>1 DEF InHand, ZipRecords, States
<1>3. /\ DOMAIN files' = DOMAIN fs \ gone /\ request' = NoRequest
      /\ \A n \in DOMAIN fs \ gone : files'[n] = fs[n]
  BY DEF zip_finish, unlink
<1>4. calls' = [d \in Downloads |-> calls[d] + IF d = zip.on_done THEN 1 ELSE 0]
  BY DEF zip_finish, InHand
<1>5. \A d \in Downloads : /\ phase[d] = "accepted" /\ calls[d] = 0 <=> zip.on_done = d
                           /\ phase[d] # "accepted" => calls[d] = 0
                           /\ calls[d] \in {0, 1}
  BY DEF Inv, OneOwed, Typed
<1>6. Typed'
  <2>1. calls' \in [Downloads -> {0, 1}]
    BY <1>4, <1>5
  <2>2. DOMAIN files' \subseteq Names
    BY <1>3 DEF InHand
  <2> QED BY <1>2, <1>3, <2>1, <2>2 DEF Inv, Typed
<1>7. Owned'
  <2>1. DOMAIN files' \subseteq {"image"}
    BY <1>3 DEF InHand, Names
  <2>2. state = "READY" => "image" \in DOMAIN files'
    BY <1>3 DEF Result, Staged
  <2>3. state = "FAILED" => "image" \notin DOMAIN files'
    BY <1>3
  <2> QED BY <1>2, <1>3, <2>1, <2>2, <2>3 DEF Owned, busy, NoRequest
<1>8. Asked'
  BY <1>3 DEF Asked, NoRequest
<1>9. OneOwed'
  BY <1>2, <1>4, <1>5, ZipAssumption DEF OneOwed
<1>10. EntryListed(zip)' /\ Unswapped'
  BY <1>2 DEF EntryListed, Unswapped, OnTheWay, Landed
<1>11. ResultIsMember'
  <2> SUFFICES ASSUME state = "READY" PROVE ResultIsMember'
    BY <1>2 DEF ResultIsMember
  <2>1. PICK c \in Contents, a \in {first, archive} :
           /\ fs["image"] = <<c>> /\ Lists(a, z.entry)
           /\ z.entry.crc = c.id /\ z.entry.uncompressed_size = c.size
    BY DEF Result
  <2>2. files'["image"] = <<c>>
    BY <1>3, <2>1 DEF Result, Staged
  <2>3. \E i \in DOMAIN a.cells :
           /\ a.cells[i].kind = "central" /\ a.cells[i].entry.name = "wanted"
           /\ a.cells[i].entry.crc = c.id /\ a.cells[i].entry.uncompressed_size = c.size
    BY <2>1 DEF Lists
  <2> QED BY <2>1, <2>2, <2>3 DEF ResultIsMember
<1>12. VerdictDeserved'
  <2>1. archive.verdict = Verdict(archive.cells)
    BY ArchiveTyped DEF Inv, Typed
  <2> QED BY <1>2, <2>1 DEF VerdictDeserved
<1> QED BY <1>6, <1>7, <1>8, <1>9, <1>10, <1>11, <1>12, <1>4 DEF Inv, Answers

\* zip_fail() for a reason that the archive deserves, or that is none of it.
LEMMA FailInv ==
    ASSUME Inv, NEW z, NEW fs, InHand(z, fs), NEW error \in Errors,
           zip_fail(z, error, fs), UNCHANGED <<archive, first, phase>>,
           archive = first /\ z.zip_size > 0 /\ error \notin {"NETWORK", "STAGING"}
             => error = Verdict(archive.cells)
    PROVE  Inv' /\ Answers
BY FinishInv DEF zip_fail

\* The numbers of the entry in hand, of NoEntry too.
LEMMA EntryNumbers ==
    ASSUME NEW z \in ZipRecords
    PROVE  z.entry.offset \in Nat /\ z.entry.compressed_size \in Nat
<1>1. z.entry \in FoundEntries \/ z.entry = NoEntry
  BY DEF ZipRecords
<1>2. CASE z.entry \in FoundEntries
  BY <1>2 DEF FoundEntries
<1>3. CASE z.entry = NoEntry
  BY <1>3 DEF NoEntry
<1> QED BY <1>1, <1>2, <1>3

\* zip_range() for a structure that is on its way.
LEMMA RangeInv ==
    ASSUME Inv, NEW z, NEW fs, InHand(z, fs), NEW len \in Nat,
           z.state \in {"READING", "LOCATING", "FETCHING"},
           z.step = StepOf(z), EntryListed(z),
           archive = first => OnTheWay(z, archive.cells),
           zip_range(z, z.step, StartOf(z), len, fs), UNCHANGED <<archive, first, phase>>
    PROVE  Inv' /\ Answers
<1>1. StartOf(z) \in Nat /\ z.step \in Staged
  <2>1. z.entry.offset \in Nat /\ z.window_offset \in Nat /\ z.data_offset \in Nat
    BY EntryNumbers DEF InHand, ZipRecords
  <2> QED BY <2>1 DEF StartOf, StepOf, Staged
<1>2. CASE zip_fail(z, "STAGING", fs)
  BY <1>2, FailInv DEF Errors
<1>3. CASE /\ request' = [owner |-> "zip", file |-> z.step, first |-> StartOf(z),
                          last |-> IF StartOf(z) + len = 0 THEN 1000000
                                   ELSE StartOf(z) + len - 1,
                          output_max |-> len]
           /\ zip' = z /\ files' = fs /\ UNCHANGED calls
  <2>1. request' \in Ranges /\ request'.owner = "zip" /\ request'.file = z.step
        /\ request'.first = StartOf(z)
    BY <1>1, <1>3 DEF Ranges
  <2>2. Typed'
    BY <1>3, <2>1 DEF Inv, Typed, InHand
  <2>3. Owned'
    BY <1>3, <2>1 DEF Owned, busy, InHand
  <2>4. Asked'
    BY <1>3, <2>1 DEF Asked, StepOf, StartOf
  <2>5. OneOwed'
    BY <1>3 DEF Inv, OneOwed, InHand
  <2>6. EntryListed(zip)' /\ ResultIsMember' /\ VerdictDeserved'
    BY <1>3 DEF EntryListed, ResultIsMember, VerdictDeserved
  <2>7. Unswapped'
    BY <1>3 DEF Unswapped, OnTheWay, Landed
  <2> QED BY <1>3, <2>2, <2>3, <2>4, <2>5, <2>6, <2>7 DEF Inv, Answers
<1> QED BY <1>2, <1>3 DEF zip_range

\* zip_step_window(), for the length that HEAD said.
LEMMA StepWindowInv ==
    ASSUME Inv, NEW z, NEW fs, InHand(z, fs), ~z.directory_only,
           archive = first => z.zip_size = Len(archive.cells),
           zip_step_window(z, fs), UNCHANGED <<archive, first, phase>>
    PROVE  Inv' /\ Answers
<1> DEFINE offset == IF z.zip_size > TailWindow THEN z.zip_size - TailWindow ELSE 0
           len    == z.zip_size - offset
           y      == [z EXCEPT !.step = "window", !.state = "READING",
                               !.window_offset = offset, !.window_len = len]
<1>1. TailWindow \in Nat /\ z.zip_size \in Nat
  BY ZipAssumption DEF InHand, ZipRecords
<1>2. offset \in Nat /\ len \in Nat
  BY <1>1
<1> HIDE DEF len
<1>3. /\ y \in ZipRecords /\ y.step = "window" /\ y.state = "READING"
      /\ y.window_offset = offset /\ y.window_len = len /\ y.zip_size = z.zip_size
      /\ y.directory_only = z.directory_only /\ y.on_done = z.on_done
      /\ y.inflate_pending = z.inflate_pending /\ y.fetch = z.fetch
  <2> HIDE DEF offset
  <2> QED BY <1>2 DEF InHand, ZipRecords, States, Staged
<1>4. zip_range(y, "window", offset, len, fs)
  BY DEF zip_step_window, len
<1>5. InHand(y, fs) /\ StartOf(y) = offset /\ StepOf(y) = "window" /\ EntryListed(y)
  BY <1>3 DEF InHand, StartOf, StepOf, EntryListed
<1>6. archive = first => OnTheWay(y, archive.cells)
  BY <1>3 DEF OnTheWay, TailOffset, len
<1> HIDE DEF y
<1> QED BY <1>2, <1>3, <1>4, <1>5, <1>6, RangeInv

\* zip_step_central(), for a directory that the verdict is up to.
LEMMA StepCentralInv ==
    ASSUME Inv, NEW z, NEW fs, InHand(z, fs),
           archive = first =>
               /\ z.central_offset = z.window_offset
               /\ Verdict(archive.cells)
                    = DirectoryVerdict(archive.cells, z.window_offset, z.window_len,
                                       z.central_entries),
           zip_step_central(z, fs), UNCHANGED <<archive, first, phase>>
    PROVE  Inv' /\ Answers
<1> DEFINE y == [z EXCEPT !.step = "central", !.state = "READING", !.directory_only = TRUE]
<1>1. /\ y \in ZipRecords /\ y.step = "central" /\ y.state = "READING" /\ y.directory_only
      /\ y.window_offset = z.window_offset /\ y.window_len = z.window_len
      /\ y.central_offset = z.central_offset /\ y.central_entries = z.central_entries
      /\ y.on_done = z.on_done
      /\ y.inflate_pending = z.inflate_pending /\ y.fetch = z.fetch
  BY DEF InHand, ZipRecords, States, Staged
<1>2. zip_range(y, "central", z.window_offset, z.window_len, fs)
  BY DEF zip_step_central
<1>3. InHand(y, fs) /\ StartOf(y) = z.window_offset /\ StepOf(y) = "central"
      /\ EntryListed(y) /\ z.window_len \in Nat
  BY <1>1 DEF InHand, StartOf, StepOf, EntryListed, ZipRecords
<1>4. archive = first => OnTheWay(y, archive.cells)
  BY <1>1 DEF OnTheWay
<1> HIDE DEF y
<1> QED BY <1>1, <1>2, <1>3, <1>4, RangeInv

\* zip_step_header(), for the wanted member's entry.
LEMMA StepHeaderInv ==
    ASSUME Inv, NEW z, NEW fs, InHand(z, fs),
           \E a \in {first, archive} : Lists(a, z.entry),
           archive = first => Verdict(archive.cells) = HeaderVerdict(archive.cells, z.entry),
           zip_step_header(z, fs), UNCHANGED <<archive, first, phase>>
    PROVE  Inv' /\ Answers
<1> DEFINE y == [z EXCEPT !.step = "header", !.state = "LOCATING"]
<1>1. /\ y \in ZipRecords /\ y.step = "header" /\ y.state = "LOCATING"
      /\ y.entry = z.entry /\ y.on_done = z.on_done
      /\ y.inflate_pending = z.inflate_pending /\ y.fetch = z.fetch
  BY DEF InHand, ZipRecords, States, Staged
<1>2. zip_range(y, "header", z.entry.offset, 1, fs)
  BY DEF zip_step_header
<1>3. InHand(y, fs) /\ StartOf(y) = z.entry.offset /\ StepOf(y) = "header" /\ EntryListed(y)
  BY <1>1 DEF InHand, StartOf, StepOf, EntryListed
<1>4. archive = first => OnTheWay(y, archive.cells)
  BY <1>1 DEF OnTheWay
<1> HIDE DEF y
<1> QED BY <1>1, <1>2, <1>3, <1>4, RangeInv

\* zip_step_member(), for the data that the verdict is up to.
LEMMA StepMemberInv ==
    ASSUME Inv, NEW z, NEW fs, InHand(z, fs),
           \E a \in {first, archive} : Lists(a, z.entry),
           archive = first =>
               Verdict(archive.cells) = DataVerdict(archive.cells, z.entry, z.data_offset),
           zip_step_member(z, fs), UNCHANGED <<archive, first, phase>>
    PROVE  Inv' /\ Answers
<1> DEFINE y == [z EXCEPT !.step = "member", !.state = "FETCHING"]
<1>1. /\ y \in ZipRecords /\ y.step = "member" /\ y.state = "FETCHING"
      /\ y.entry = z.entry /\ y.data_offset = z.data_offset
      /\ y.on_done = z.on_done
      /\ y.inflate_pending = z.inflate_pending /\ y.fetch = z.fetch
  BY DEF InHand, ZipRecords, States, Staged
<1>2. zip_range(y, "member", z.data_offset, z.entry.compressed_size, fs)
  BY DEF zip_step_member
<1>3. /\ InHand(y, fs) /\ StartOf(y) = z.data_offset /\ StepOf(y) = "member"
      /\ EntryListed(y) /\ z.entry.compressed_size \in Nat
  BY <1>1, EntryNumbers DEF InHand, StartOf, StepOf, EntryListed
<1>4. archive = first => OnTheWay(y, archive.cells)
  BY <1>1 DEF OnTheWay
<1> HIDE DEF y
<1> QED BY <1>1, <1>2, <1>3, <1>4, RangeInv

\* A file that could not be taken is no verdict on the archive.
LEMMA TakeFailsInv ==
    ASSUME Inv, NEW z, NEW fs, InHand(z, fs), NEW name, NEW expected,
           zip_take_fails(z, name, expected, fs), UNCHANGED <<archive, first, phase>>
    PROVE  Inv' /\ Answers
BY FailInv DEF zip_take_fails, Errors

\* The search of a part of the archive that is its directory.
LEMMA SearchInv ==
    ASSUME Inv, NEW z, NEW fs, InHand(z, fs), NEW central, NEW offset \in Nat,
           Part(central, archive.cells, offset), NEW entries \in Nat,
           archive = first =>
               /\ z.central_offset = offset
               /\ Verdict(archive.cells)
                    = DirectoryVerdict(archive.cells, offset, Len(central), entries),
           zip_search(z, central, entries, fs), UNCHANGED <<archive, first, phase>>
    PROVE  Inv' /\ Answers
<1> DEFINE found == zip_find_member(central, entries, "wanted")
           after == [z EXCEPT !.entry = found.entry]
           cells == archive.cells
           verdict == DirectoryVerdict(cells, offset, Len(central), entries)
<1>1. cells \in Seq(Cells) /\ central \in Seq(Cells)
  BY ArchiveTyped DEF Inv, Typed, Part
<1>2. /\ found.search = "MALFORMED" => verdict = "NOT_A_ZIP"
      /\ found.search = "ABSENT" => verdict = "NO_MEMBER"
      /\ found.search = "FOUND" =>
            verdict = MemberVerdict(cells, found.entry, offset)
            /\ Sentinel \notin {found.entry.offset, found.entry.compressed_size,
                                found.entry.uncompressed_size}
  BY <1>1, WalkSettles
<1> HIDE DEF verdict
<1>3. CASE found.search = "MALFORMED" /\ zip_fail(z, "NOT_A_ZIP", fs)
  BY <1>2, <1>3, FailInv DEF Errors, verdict
<1>4. CASE found.search = "ABSENT" /\ zip_fail(z, "NO_MEMBER", fs)
  BY <1>2, <1>4, FailInv DEF Errors, verdict
<1>5. CASE /\ found.search = "FOUND"
           /\ IF EntryVerdict(z, found.entry) = "NONE" THEN zip_step_header(after, fs)
              ELSE zip_fail(after, EntryVerdict(z, found.entry), fs)
  <2> DEFINE e == found.entry
  <2>1. e \in FoundEntries
        /\ \E i \in 1 .. Len(central) :
              central[i].kind = "central" /\ central[i].entry = e /\ e.name = "wanted"
    BY <1>1, <1>5, FoundMemberTyped
  <2>2. Lists(archive, e)
    <3>1. PICK i \in 1 .. Len(central) :
              central[i].kind = "central" /\ central[i].entry = e /\ e.name = "wanted"
      BY <2>1
    <3>2. central[i] = cells[offset + i] /\ offset + i \in DOMAIN cells
      BY <1>1, LenProperties DEF Part
    <3> QED BY <3>1, <3>2 DEF Lists
  <2>3. verdict = MemberVerdict(cells, e, offset)
        /\ Sentinel \notin {e.offset, e.compressed_size, e.uncompressed_size}
    BY <1>2, <1>5
  <2> HIDE DEF found
  <2>4. InHand(after, fs) /\ after.entry = e /\ after.zip_size = z.zip_size
    BY <2>1 DEF InHand, ZipRecords
  <2>5. z.central_offset = offset =>
          verdict = IF EntryVerdict(z, e) # "NONE" THEN EntryVerdict(z, e)
                    ELSE HeaderVerdict(cells, e)
    BY <2>3 DEF MemberVerdict, EntryVerdict
  <2>6. EntryVerdict(z, e) \in Errors
    BY DEF EntryVerdict, Errors
  <2> HIDE DEF after, e
  <2>7. CASE EntryVerdict(z, e) = "NONE"
    <3>1. zip_step_header(after, fs)
      BY <1>5, <2>7 DEF e
    <3>2. archive = first => Verdict(cells) = HeaderVerdict(cells, after.entry)
      BY <2>4, <2>5, <2>7 DEF verdict
    <3> QED BY <2>2, <2>4, <3>1, <3>2, StepHeaderInv
  <2>8. CASE EntryVerdict(z, e) # "NONE"
    <3>1. zip_fail(after, EntryVerdict(z, e), fs)
      BY <1>5, <2>8 DEF e
    <3>2. archive = first => Verdict(cells) = EntryVerdict(z, e)
      BY <2>5, <2>8 DEF verdict
    <3> QED BY <2>4, <2>6, <3>1, <3>2, FailInv
  <2> QED BY <2>7, <2>8
<1> QED BY <1>3, <1>4, <1>5 DEF zip_search

-----------------------------------------------------------------------------
(* What comes back. *)

\* zip_directory_elsewhere(), for an end record that left the verdict to its
\* directory, if that is not too large.
LEMMA ElsewhereInv ==
    ASSUME Inv, NEW z, NEW fs, InHand(z, fs), NEW end,
           end.entries \in Nat, end.central_size \in Nat, end.central_offset \in Nat,
           archive = first =>
               Verdict(archive.cells) =
                 IF end.central_size > DirectoryMax THEN "UNSUPPORTED"
                 ELSE DirectoryVerdict(archive.cells, end.central_offset, end.central_size,
                                       end.entries),
           zip_directory_elsewhere(z, end, fs), UNCHANGED <<archive, first, phase>>
    PROVE  Inv' /\ Answers
<1> DEFINE y == [z EXCEPT !.window_offset = end.central_offset,
                          !.window_len = end.central_size,
                          !.central_offset = end.central_offset,
                          !.central_entries = end.entries]
<1>1. CASE end.central_size > DirectoryMax
  <2>1. zip_fail(z, "UNSUPPORTED", fs)
    BY <1>1 DEF zip_directory_elsewhere
  <2> QED BY <1>1, <2>1, FailInv DEF Errors
<1>2. CASE ~(end.central_size > DirectoryMax)
  <2>1. zip_step_central(y, fs)
    BY <1>2 DEF zip_directory_elsewhere
  <2>2. /\ InHand(y, fs) /\ y.window_offset = end.central_offset
        /\ y.window_len = end.central_size /\ y.central_offset = end.central_offset
        /\ y.central_entries = end.entries
    BY DEF InHand, ZipRecords
  <2> HIDE DEF y
  <2>3. archive = first =>
          /\ y.central_offset = y.window_offset
          /\ Verdict(archive.cells)
               = DirectoryVerdict(archive.cells, y.window_offset, y.window_len,
                                  y.central_entries)
    BY <1>2, <2>2
  <2> QED BY <2>1, <2>2, <2>3, StepCentralInv
<1> QED BY <1>1, <1>2

\* zip_read_directory() of a part of the archive that is what was asked for, if
\* it has the right length.
LEMMA ReadDirectoryInv ==
    ASSUME Inv, NEW z, NEW fs, InHand(z, fs), z.state = "READING",
           archive = first => OnTheWay(z, archive.cells),
           Part(fs[StepOf(z)], archive.cells, z.window_offset),
           zip_read_directory(z, fs), UNCHANGED <<archive, first, phase>>
    PROVE  Inv' /\ Answers
<1> DEFINE name   == IF z.directory_only THEN "central" ELSE "window"
           window == fs[name]
           cells  == archive.cells
           wo     == z.window_offset
           ends   == zip_find_end(window, wo)
<1>1. cells \in Seq(Cells) /\ Len(cells) \in Nat
  BY ArchiveTyped, LenProperties DEF Inv, Typed
<1>2. Part(window, cells, wo) /\ window \in Seq(Cells) /\ Len(window) \in Nat
  <2>1. Part(window, cells, wo)
    BY DEF StepOf
  <2>2. window \in Seq(Cells)
    BY <2>1 DEF Part
  <2> QED BY <2>1, <2>2, LenProperties
<1>3. wo \in Nat /\ z.central_entries \in Nat
  BY DEF InHand, ZipRecords
<1> HIDE DEF window, name
<1>4. CASE zip_take_fails(z, name, z.window_len, fs)
  BY <1>4, TakeFailsInv
<1>5. CASE /\ zip_take(name, z.window_len, fs) /\ z.directory_only
           /\ zip_search(z, window, z.central_entries, fs)
  <2>1. Len(window) = z.window_len
    BY <1>5 DEF zip_take, window
  <2>2. archive = first => /\ z.central_offset = wo
                           /\ Verdict(cells) = DirectoryVerdict(cells, wo, Len(window),
                                                                z.central_entries)
    BY <1>5, <2>1 DEF OnTheWay
  <2> QED BY <1>2, <1>3, <1>5, <2>2, SearchInv
<1>6. CASE /\ zip_take(name, z.window_len, fs) /\ ~z.directory_only
           /\ ends = {} /\ zip_fail(z, "NOT_A_ZIP", fs)
  <2>1. Len(window) = z.window_len
    BY <1>6 DEF zip_take, window
  <2>2. archive = first => Verdict(cells) = "NOT_A_ZIP"
    BY <1>1, <1>2, <1>6, <2>1, EndSettled DEF OnTheWay
  <2> QED BY <1>6, <2>2, FailInv DEF Errors
<1>7. ASSUME zip_take(name, z.window_len, fs), ~z.directory_only, NEW end \in ends,
             LET placed == [z EXCEPT !.central_offset = end.central_offset]
             IN  IF zip_central_in(end, Len(window), wo)
                 THEN zip_search(placed, zip_central_slice(end, window, wo), end.entries, fs)
                 ELSE zip_directory_elsewhere(placed, end, fs)
      PROVE  Inv' /\ Answers
  <2> DEFINE placed == [z EXCEPT !.central_offset = end.central_offset]
             into   == end.central_offset - wo
             slice  == zip_central_slice(end, window, wo)
  <2>1. /\ end.entries \in Nat /\ end.central_size \in Nat /\ end.central_offset \in Nat
        /\ end.central_offset + end.central_size < wo + Len(window)
    BY <1>2, <1>3, FoundEndTyped
  <2>2. Len(window) = z.window_len
    BY <1>7 DEF zip_take, window
  <2>3. archive = first =>
          /\ Verdict(cells) =
               IF end.central_offset < Len(cells) - TailWindow /\ end.central_size > DirectoryMax
               THEN "UNSUPPORTED"
               ELSE DirectoryVerdict(cells, end.central_offset, end.central_size, end.entries)
          /\ wo = TailOffset(cells)
    BY <1>1, <1>2, <1>7, <2>2, EndSettled DEF OnTheWay
  <2>4. InHand(placed, fs) /\ placed.central_offset = end.central_offset
    BY <2>1 DEF InHand, ZipRecords
  <2> HIDE DEF placed, ends
  <2>5. TailWindow \in Nat
    BY ZipAssumption
  <2>6. wo = TailOffset(cells) => (end.central_offset >= wo
                                    <=> ~(end.central_offset < Len(cells) - TailWindow))
    BY <1>1, <2>1, <2>5 DEF TailOffset
  <2>7. zip_central_in(end, Len(window), wo) <=> end.central_offset >= wo
    BY <1>2, <1>3, <2>1 DEF zip_central_in
  <2>8. CASE zip_central_in(end, Len(window), wo)
    <3>1. into \in Nat /\ into + end.central_size <= Len(window)
          /\ wo + into = end.central_offset
      BY <1>2, <1>3, <2>1, <2>7, <2>8
    <3>2. Len(slice) = end.central_size /\ Part(slice, cells, end.central_offset)
      <4> HIDE DEF into
      <4>1. Len(slice) = end.central_size /\ Part(slice, cells, wo + into)
        BY <1>1, <1>2, <1>3, <2>1, <3>1, PartOfPart DEF zip_central_slice, into
      <4> QED BY <3>1, <4>1
    <3>3. zip_search(placed, slice, end.entries, fs)
      BY <1>7, <2>8 DEF placed
    <3> HIDE DEF slice
    <3>4. archive = first =>
            /\ placed.central_offset = end.central_offset
            /\ Verdict(cells) = DirectoryVerdict(cells, end.central_offset, Len(slice),
                                                 end.entries)
      BY <2>3, <2>4, <2>6, <2>7, <2>8, <3>2
    <3> QED BY <2>1, <2>4, <3>2, <3>3, <3>4, SearchInv
  <2>9. CASE ~zip_central_in(end, Len(window), wo)
    <3>1. zip_directory_elsewhere(placed, end, fs)
      BY <1>7, <2>9 DEF placed
    <3>2. archive = first =>
            Verdict(cells) =
              IF end.central_size > DirectoryMax THEN "UNSUPPORTED"
              ELSE DirectoryVerdict(cells, end.central_offset, end.central_size, end.entries)
      BY <2>3, <2>6, <2>7, <2>9
    <3> QED BY <2>1, <2>4, <3>1, <3>2, ElsewhereInv
  <2> QED BY <2>8, <2>9
<1> QED BY <1>4, <1>5, <1>6, <1>7 DEF zip_read_directory, name, window

\* zip_read_header() of the cell that the entry says is the local header.
LEMMA ReadHeaderInv ==
    ASSUME Inv, NEW z, NEW fs, InHand(z, fs), z.state = "LOCATING", EntryListed(z),
           archive = first => OnTheWay(z, archive.cells),
           Part(fs["header"], archive.cells, z.entry.offset),
           zip_read_header(z, fs), UNCHANGED <<archive, first, phase>>
    PROVE  Inv' /\ Answers
<1> DEFINE cells == archive.cells
           header == fs["header"]
           start == zip_local_data_start(header[1], z.entry)
           y == [z EXCEPT !.data_offset = start]
<1>1. cells \in Seq(Cells) /\ Len(cells) \in Nat /\ DOMAIN cells = 1 .. Len(cells)
  BY ArchiveTyped, LenProperties DEF Inv, Typed
<1>2. CASE zip_take_fails(z, "header", 1, fs)
  BY <1>2, TakeFailsInv
<1>3. CASE /\ zip_take("header", 1, fs)
           /\ IF start = Sentinel THEN zip_fail(z, "NOT_A_ZIP", fs) ELSE zip_step_member(y, fs)
  <2> DEFINE o == z.entry.offset
  <2>1. o \in Nat
    BY EntryNumbers DEF InHand
  <2>2. Len(header) = 1
    BY <1>3 DEF zip_take
  <2>3. header[1] = cells[o + 1] /\ o + 1 \in DOMAIN cells /\ header[1] \in Cells
    BY <1>1, <2>1, <2>2, ElementOfSeq DEF Part
  <2>4. start = IF cells[o + 1].kind = "local" THEN o + 1 + cells[o + 1].skip ELSE Sentinel
    BY <2>3 DEF zip_local_data_start
  <2>5. CASE cells[o + 1].kind = "local"
    <3>1. start \in Nat /\ start = o + 1 + cells[o + 1].skip
      BY <2>1, <2>3, <2>4, <2>5, CellTyped
    <3>2. zip_step_member(y, fs)
      BY <1>3, <3>1 DEF Sentinel
    <3>3. InHand(y, fs) /\ y.entry = z.entry /\ y.data_offset = start
      BY <3>1 DEF InHand, ZipRecords
    <3>4. archive = first => Verdict(cells) = DataVerdict(cells, z.entry, start)
      BY <2>3, <2>5, <3>1 DEF OnTheWay, HeaderVerdict
    <3> HIDE DEF y
    <3> QED BY <3>2, <3>3, <3>4, StepMemberInv DEF EntryListed
  <2>6. CASE cells[o + 1].kind # "local"
    <3>1. zip_fail(z, "NOT_A_ZIP", fs)
      BY <1>3, <2>4, <2>6
    <3>2. archive = first => Verdict(cells) = "NOT_A_ZIP"
      BY <2>6 DEF OnTheWay, HeaderVerdict
    <3> QED BY <3>1, <3>2, FailInv DEF Errors
  <2> QED BY <2>5, <2>6
<1> QED BY <1>2, <1>3 DEF zip_read_header

\* zip_step_inflate(), with the answer to the last request in its file.
LEMMA StepInflateInv ==
    ASSUME Inv, NEW z, NEW fs, InHand(z, fs), z.state = "FETCHING", EntryListed(z),
           archive = first => OnTheWay(z, archive.cells),
           "member" \in DOMAIN fs, Part(fs["member"], archive.cells, z.data_offset),
           zip_step_inflate(z, fs), UNCHANGED <<archive, first, phase>>
    PROVE  Inv' /\ Answers
<1>1. zip' = [z EXCEPT !.state = "INFLATING", !.inflate_pending = TRUE]
  BY DEF zip_step_inflate
<1>2. /\ zip' \in ZipRecords /\ zip'.state = "INFLATING" /\ zip'.inflate_pending
      /\ zip'.on_done = z.on_done /\ zip'.entry = z.entry /\ zip'.data_offset = z.data_offset
      /\ zip'.fetch = z.fetch
  BY <1>1 DEF InHand, ZipRecords, States
<1>3. files' = fs /\ request' = NoRequest /\ calls' = calls
  BY DEF zip_step_inflate
<1>4. Typed'
  BY <1>2, <1>3 DEF Inv, Typed, InHand
<1>5. Owned' /\ Asked'
  BY <1>2, <1>3 DEF Owned, Asked, busy, NoRequest, InHand
<1>6. OneOwed'
  BY <1>2, <1>3 DEF Inv, OneOwed, InHand
<1>7. EntryListed(zip)' /\ ResultIsMember' /\ VerdictDeserved'
  BY <1>2 DEF EntryListed, ResultIsMember, VerdictDeserved
<1>8. Unswapped'
  BY <1>2, <1>3 DEF Unswapped, OnTheWay, Landed
<1> QED BY <1>3, <1>4, <1>5, <1>6, <1>7, <1>8 DEF Inv, Answers

\* zip_inflate(), of a member of which the archive may have changed meanwhile.
LEMMA InflateInv ==
    ASSUME Inv, NEW z, NEW fs, InHand(z, fs), z.state = "INFLATING", EntryListed(z),
           archive = first =>
               OnTheWay(z, archive.cells)
               /\ Part(fs["member"], archive.cells, z.data_offset),
           zip_inflate(z, fs), UNCHANGED <<archive, first, phase>>
    PROVE  Inv' /\ Answers
<1> DEFINE cells == archive.cells
           member == fs["member"]
           with(b) == [n \in DOMAIN fs \cup {"image"} |-> IF n = "image" THEN b ELSE fs[n]]
<1>1. cells \in Seq(Cells) /\ z \in ZipRecords
  BY ArchiveTyped DEF Inv, Typed, InHand
<1>2. archive = first /\ Len(member) = z.entry.compressed_size =>
        Verdict(cells) = IF Unpacked(z, member) = {} THEN "INFLATE" ELSE "NONE"
  BY <1>1, UnpackingSettles DEF OnTheWay
<1>3. CASE zip_take_fails(z, "member", z.entry.compressed_size, fs)
  BY <1>3, TakeFailsInv
<1>4. CASE /\ zip_take("member", z.entry.compressed_size, fs)
           /\ Unpacked(z, member) = {} /\ zip_fail(z, "INFLATE", fs)
  BY <1>2, <1>4, FailInv DEF zip_take, Errors
<1>5. ASSUME zip_take("member", z.entry.compressed_size, fs), NEW c \in Unpacked(z, member),
             \/ zip_finish(z, "READY", "NONE", with(<<c>>))
             \/ zip_fail(z, "STAGING", with(<<Junk>>))
      PROVE  Inv' /\ Answers
  <2>1. /\ InHand(z, with(<<c>>)) /\ InHand(z, with(<<Junk>>))
        /\ "image" \in DOMAIN with(<<c>>) /\ with(<<c>>)["image"] = <<c>>
    BY DEF InHand, Names
  <2> HIDE DEF with
  <2>2. CASE zip_fail(z, "STAGING", with(<<Junk>>))
    BY <2>1, <2>2, FailInv DEF Errors
  <2>3. CASE zip_finish(z, "READY", "NONE", with(<<c>>))
    <3>1. c \in Contents /\ c.size = z.entry.uncompressed_size /\ c.id = z.entry.crc
      BY <1>5 DEF Unpacked, inflate, stored, Whole
    <3>2. PICK a \in {first, archive} : Lists(a, z.entry)
      BY DEF EntryListed
    <3>3. Result(z.entry, with(<<c>>))
      BY <2>1, <3>1, <3>2 DEF Result
    <3>4. archive = first => "NONE" = Verdict(cells)
      BY <1>2, <1>5 DEF zip_take
    <3> QED BY <2>1, <2>3, <3>3, <3>4, FinishInv DEF Errors
  <2> QED BY <1>5, <2>2, <2>3
<1> QED BY <1>3, <1>4, <1>5 DEF zip_inflate

-----------------------------------------------------------------------------
(* The steps. *)

\* The structure of a download that waits for an answer is in hand.
LEMMA WaitingInHand ==
    ASSUME Inv, request.owner = "zip"
    PROVE  /\ zip.state \in {"MEASURING", "READING", "LOCATING", "FETCHING"}
           /\ zip.step = StepOf(zip) /\ ~zip.inflate_pending
           /\ \A r \in BOOLEAN : \A fs :
                 DOMAIN fs \subseteq Names => InHand([zip EXCEPT !.retried = r], fs)
           /\ InHand(zip, files)
<1>1. zip \in ZipRecords /\ zip.state \in States /\ DOMAIN files \subseteq Names
  BY DEF Inv, Typed, ZipRecords
<1>2. /\ busy(zip) /\ zip.on_done # 0 /\ zip.fetch /\ ~zip.inflate_pending
      /\ zip.state # "INFLATING"
  BY DEF Inv, Owned, NoRequest
<1>3. zip.state \in {"MEASURING", "READING", "LOCATING", "FETCHING"} /\ zip.step = StepOf(zip)
  BY <1>1, <1>2 DEF busy, States, Inv, Asked
<1>4. ASSUME NEW r \in BOOLEAN, NEW fs, DOMAIN fs \subseteq Names
      PROVE  InHand([zip EXCEPT !.retried = r], fs)
  BY <1>1, <1>2, <1>4 DEF InHand, ZipRecords
<1>5. InHand(zip, files)
  BY <1>1, <1>2 DEF InHand
<1> QED BY <1>2, <1>3, <1>4, <1>5

\* A structure differs from the zip in `retried` alone.
Retried(z) ==
    /\ z.state = zip.state /\ z.step = zip.step /\ z.directory_only = zip.directory_only
    /\ z.zip_size = zip.zip_size /\ z.entry = zip.entry /\ z.data_offset = zip.data_offset
    /\ z.window_offset = zip.window_offset /\ z.window_len = zip.window_len
    /\ z.central_offset = zip.central_offset /\ z.central_entries = zip.central_entries

\* Setting `retried` changes nothing else.
LEMMA RetriedIs ==
    ASSUME Inv, NEW r \in BOOLEAN
    PROVE  Retried([zip EXCEPT !.retried = r])
BY DEF Inv, Typed, ZipRecords, Retried

\* zip_on_fetch() of a request that failed, repeated or given up.
LEMMA FailedInv == ASSUME Inv, OnFetchFailed PROVE Inv' /\ Answers
<1> USE DEF OnFetchFailed
<1>1. request.owner = "zip" /\ UNCHANGED <<archive, first, phase>>
  OBVIOUS
<1>2. CASE zip_fail(zip, "NETWORK", files)
  BY <1>1, <1>2, WaitingInHand, FailInv DEF Errors
<1>3. CASE zip.step # "NULL" /\ zip_step([zip EXCEPT !.retried = TRUE], files)
  <2> DEFINE z == [zip EXCEPT !.retried = TRUE]
  <2>1. InHand(z, files) /\ Retried(z) /\ zip.step = StepOf(zip)
    BY <1>1, WaitingInHand, RetriedIs DEF Inv, Typed
  <2>2. zip_step(z, files) /\ z.step = StepOf(z) /\ zip.state = z.state
    BY <1>3, <2>1 DEF Retried, StepOf
  <2>3. zip.state \in {"READING", "LOCATING", "FETCHING"}
    BY <1>1, <1>3, WaitingInHand DEF StepOf
  <2>4. archive = first => OnTheWay(z, archive.cells)
    BY <2>1 DEF Inv, Unswapped, OnTheWay, Retried
  <2>5. EntryListed(z)
    BY <2>1 DEF Inv, EntryListed, Retried
  <2> HIDE DEF z
  <2>6. CASE z.step = "window" /\ zip_step_window(z, files)
    <3>1. z.state = "READING" /\ ~z.directory_only
      BY <2>2, <2>3, <2>6 DEF StepOf
    <3>2. archive = first => z.zip_size = Len(archive.cells)
      BY <2>4, <3>1 DEF OnTheWay
    <3> QED BY <1>1, <2>1, <2>6, <3>1, <3>2, StepWindowInv
  <2>7. CASE z.step = "central" /\ zip_step_central(z, files)
    <3>1. z.state = "READING" /\ z.directory_only
      BY <2>2, <2>3, <2>7 DEF StepOf
    <3>2. archive = first =>
            /\ z.central_offset = z.window_offset
            /\ Verdict(archive.cells)
                 = DirectoryVerdict(archive.cells, z.window_offset, z.window_len,
                                    z.central_entries)
      BY <2>4, <3>1 DEF OnTheWay
    <3> QED BY <1>1, <2>1, <2>7, <3>2, StepCentralInv
  <2>8. CASE z.step = "header" /\ zip_step_header(z, files)
    <3>1. z.state = "LOCATING"
      BY <2>2, <2>3, <2>8 DEF StepOf
    <3> QED BY <1>1, <2>1, <2>4, <2>5, <2>8, <3>1, StepHeaderInv DEF OnTheWay, EntryListed
  <2>9. CASE z.step = "member" /\ zip_step_member(z, files)
    <3>1. z.state = "FETCHING"
      BY <2>2, <2>3, <2>9 DEF StepOf
    <3> QED BY <1>1, <2>1, <2>4, <2>5, <2>9, <3>1, StepMemberInv DEF OnTheWay, EntryListed
  <2> QED BY <2>2, <2>6, <2>7, <2>8, <2>9 DEF zip_step
<1> QED BY <1>2, <1>3

\* zip_on_fetch() of HEAD.
LEMMA MeasuredInv == ASSUME Inv, OnFetchMeasured PROVE Inv' /\ Answers
<1> DEFINE size == Len(archive.cells)
           after == [zip EXCEPT !.retried = FALSE]
           y == [after EXCEPT !.zip_size = size]
<1>1. request.owner = "zip" /\ UNCHANGED <<archive, first, phase>> /\ zip.state = "MEASURING"
  BY DEF OnFetchMeasured
<1>2. InHand(after, files) /\ Retried(after) /\ zip.zip_size = 0 /\ ~zip.directory_only
  BY <1>1, WaitingInHand, RetriedIs DEF Inv, Typed, Asked
<1>3. CASE zip_fail(after, "NOT_A_ZIP", files)
  <2> HIDE DEF after
  <2>1. after.zip_size = 0
    BY <1>2 DEF Retried
  <2> QED BY <1>1, <1>2, <1>3, <2>1, FailInv DEF Errors
<1>4. CASE zip_step_window(y, files)
  <2>1. size \in Nat
    BY ArchiveTyped, LenProperties DEF Inv, Typed
  <2>2. ~after.directory_only
    BY <1>2 DEF Retried
  <2>3. InHand(y, files) /\ y.zip_size = size /\ ~y.directory_only
    <3> HIDE DEF after
    <3> QED BY <1>2, <2>1, <2>2 DEF InHand, ZipRecords
  <2> HIDE DEF y
  <2> QED BY <1>1, <1>4, <2>3, StepWindowInv
<1> QED BY <1>3, <1>4 DEF OnFetchMeasured

\* zip_on_fetch() of a range, whole or short.
LEMMA RangeAnsweredInv == ASSUME Inv, OnFetchRange PROVE Inv' /\ Answers
<1>1. /\ request.owner = "zip" /\ UNCHANGED <<archive, first, phase>>
      /\ zip.state # "MEASURING"
  BY DEF OnFetchRange
<1>2. /\ request \in Ranges /\ request.file = StepOf(zip) /\ request.first = StartOf(zip)
      /\ zip.state \in {"READING", "LOCATING", "FETCHING"} /\ archive \in Archives
  BY <1>1, WaitingInHand DEF Inv, Asked, Typed
<1> DEFINE after == [zip EXCEPT !.retried = FALSE]
           with(body) == [n \in DOMAIN files \cup {request.file} |->
                             IF n = request.file THEN body ELSE files[n]]
<1>3. PICK body \in Replies :
         \/ zip.state = "READING"  /\ zip_read_directory(after, with(body))
         \/ zip.state = "LOCATING" /\ zip_read_header(after, with(body))
         \/ zip.state = "FETCHING" /\ zip_step_inflate(after, with(body))
  BY DEF OnFetchRange
<1> DEFINE fs == with(body)
<1>4. Part(body, archive.cells, request.first)
  BY <1>2, RepliesAreParts
<1>5. /\ DOMAIN fs \subseteq Names /\ request.file \in DOMAIN fs
      /\ fs[request.file] = body
  BY <1>2 DEF Inv, Typed, Names, Ranges
<1> HIDE DEF fs
<1>6. InHand(after, fs) /\ Retried(after)
  BY <1>1, <1>5, WaitingInHand, RetriedIs
<1> HIDE DEF after
<1>7. StepOf(after) = StepOf(zip) /\ StartOf(after) = StartOf(zip) /\ after.state = zip.state
  BY <1>6 DEF Retried, StepOf, StartOf
<1>8. (archive = first => OnTheWay(after, archive.cells)) /\ EntryListed(after)
  BY <1>6 DEF Inv, Unswapped, OnTheWay, EntryListed, Retried
<1>9. CASE zip.state = "READING" /\ zip_read_directory(after, fs)
  <2>1. Part(fs[StepOf(after)], archive.cells, after.window_offset)
    BY <1>2, <1>4, <1>5, <1>7, <1>9 DEF StartOf
  <2> QED BY <1>1, <1>6, <1>7, <1>8, <1>9, <2>1, ReadDirectoryInv
<1>10. CASE zip.state = "LOCATING" /\ zip_read_header(after, fs)
  <2>1. Part(fs["header"], archive.cells, after.entry.offset)
    BY <1>2, <1>4, <1>5, <1>7, <1>10 DEF StartOf, StepOf
  <2> QED BY <1>1, <1>6, <1>7, <1>8, <1>10, <2>1, ReadHeaderInv
<1>11. CASE zip.state = "FETCHING" /\ zip_step_inflate(after, fs)
  <2>1. "member" \in DOMAIN fs /\ Part(fs["member"], archive.cells, after.data_offset)
    BY <1>2, <1>4, <1>5, <1>7, <1>11 DEF StartOf, StepOf
  <2> QED BY <1>1, <1>6, <1>7, <1>8, <1>11, <2>1, StepInflateInv
<1> QED BY <1>3, <1>9, <1>10, <1>11 DEF fs

\* inkwell_zip_fetch_tick().
LEMMA TickInv == ASSUME Inv, Tick PROVE Inv' /\ Answers
<1> DEFINE z == [zip EXCEPT !.inflate_pending = FALSE]
<1>1. zip.inflate_pending /\ zip_inflate(z, files) /\ UNCHANGED <<archive, first, phase>>
  BY DEF Tick
<1>2. zip.state = "INFLATING" /\ zip.on_done # 0 /\ zip.fetch
  BY <1>1 DEF Inv, Owned
<1>3. /\ InHand(z, files) /\ z.state = zip.state /\ z.entry = zip.entry
      /\ z.data_offset = zip.data_offset
  BY <1>2 DEF Inv, Typed, InHand, ZipRecords
<1>4. EntryListed(z)
  BY <1>3 DEF Inv, EntryListed
<1>5. archive = first =>
        OnTheWay(z, archive.cells) /\ Part(files["member"], archive.cells, z.data_offset)
  BY <1>2, <1>3 DEF Inv, Unswapped, OnTheWay, Landed
<1> HIDE DEF z
<1> QED BY <1>1, <1>2, <1>3, <1>4, <1>5, InflateInv

\* A staged file is created or emptied.
LEMMA BodyBeginsInv == ASSUME Inv, BodyBegins PROVE Inv'
<1>1. /\ request.owner = "zip" /\ zip.state # "MEASURING"
      /\ UNCHANGED <<archive, first, request, zip, phase, calls>>
      /\ DOMAIN files' = DOMAIN files \cup {request.file}
  BY DEF BodyBegins
<1>2. /\ zip.state \in {"READING", "LOCATING", "FETCHING"} /\ request \in Ranges
  BY <1>1, WaitingInHand DEF Inv, Asked
<1>3. Typed'
  BY <1>1, <1>2 DEF Inv, Typed, Names, Ranges
<1>4. Owned'
  BY <1>1, <1>2 DEF Inv, Owned, busy
<1>5. Asked' /\ OneOwed' /\ EntryListed(zip)'
  BY <1>1 DEF Inv, Asked, OneOwed, EntryListed, StepOf, StartOf, Lists
<1>6. ResultIsMember' /\ VerdictDeserved'
  BY <1>1, <1>2 DEF ResultIsMember, VerdictDeserved
<1>7. Unswapped'
  BY <1>1, <1>2 DEF Inv, Unswapped, OnTheWay, Landed
<1> QED BY <1>3, <1>4, <1>5, <1>6, <1>7 DEF Inv

\* A release replaces the archive: the entry in hand stays one of the first archive.
LEMMA ReplaceInv == ASSUME Inv, Replace PROVE Inv'
<1>1. /\ busy(zip) /\ archive = first /\ archive' \in Archives
      /\ UNCHANGED <<first, request, files, zip, phase, calls>>
  BY ZipAssumption DEF Replace
<1>2. Typed' /\ Owned' /\ Asked' /\ OneOwed'
  BY <1>1 DEF Inv, Typed, Owned, Asked, OneOwed, StepOf, StartOf, busy
<1>3. EntryListed(zip)'
  BY <1>1 DEF Inv, EntryListed, Lists
<1>4. ResultIsMember' /\ VerdictDeserved'
  BY <1>1 DEF ResultIsMember, VerdictDeserved, busy
<1>5. Unswapped'
  <2>1. CASE archive' = first
    <3>1. archive' = archive
      BY <1>1, <2>1
    <3> QED BY <1>1, <3>1 DEF Inv, Unswapped, Landed
  <2>2. CASE archive' # first
    BY <1>1, <2>2 DEF Unswapped
  <2> QED BY <2>1, <2>2
<1> QED BY <1>2, <1>3, <1>4, <1>5 DEF Inv

\* The fetcher is used by its owner.
LEMMA OtherRequestInv == ASSUME Inv, OtherRequest PROVE Inv'
<1>1. UNCHANGED <<archive, first, files, zip, phase, calls>>
  BY DEF OtherRequest
<1>2. /\ request.owner # "zip" /\ request'.owner # "zip"
      /\ request' \in {NoRequest, [owner |-> "other"]} /\ (request = NoRequest => ~busy(zip))
  BY DEF OtherRequest, NoRequest
<1>3. Typed' /\ Asked' /\ OneOwed' /\ EntryListed(zip)'
  BY <1>1, <1>2 DEF Inv, Typed, Asked, OneOwed, EntryListed
<1>4. Owned'
  <2>1. ~zip.inflate_pending
    BY <1>2 DEF Inv, Owned, OtherRequest, NoRequest
  <2> QED BY <1>1, <1>2, <2>1 DEF Inv, Owned, busy
<1>5. ResultIsMember' /\ VerdictDeserved' /\ Unswapped'
  BY <1>1 DEF Inv, ResultIsMember, VerdictDeserved, Unswapped, Landed
<1> QED BY <1>3, <1>4, <1>5 DEF Inv

\* The structure as start() leaves it.
LEMMA ZeroTyped ==
    ASSUME NEW d \in Downloads \cup {0}
    PROVE  LET z == [Zero EXCEPT !.fetch = TRUE, !.on_done = d, !.state = "MEASURING"]
           IN  /\ z \in ZipRecords /\ z.on_done = d /\ z.state = "MEASURING"
               /\ z.step = "NULL" /\ z.zip_size = 0
               /\ z.fetch /\ ~z.inflate_pending /\ ~z.directory_only
<1> DEFINE z == [Zero EXCEPT !.fetch = TRUE, !.on_done = d, !.state = "MEASURING"]
<1>1. z \in ZipRecords
  BY DEF Zero, ZipRecords, States, Errors
<1>2. z.on_done = d /\ z.state = "MEASURING" /\ z.step = "NULL" /\ z.zip_size = 0
  BY DEF Zero
<1>3. z.fetch = TRUE /\ z.inflate_pending = FALSE /\ z.directory_only = FALSE
  BY DEF Zero
<1> QED BY <1>1, <1>2, <1>3

\* start() refuses, with or without having cleared the structure.
LEMMA StartRefusedInv == ASSUME Inv, NEW d \in Downloads, StartRefused(d) PROVE Inv'
<1>1. /\ phase[d] = "unused" /\ phase' = [phase EXCEPT ![d] = "refused"]
      /\ UNCHANGED <<archive, first, request, files, calls>>
  BY DEF StartRefused
<1>2. /\ zip'.on_done = zip.on_done /\ zip' \in ZipRecords
      /\ \/ zip' = zip
         \/ /\ ~busy(zip) /\ zip'.state = "IDLE" /\ request = NoRequest
            /\ ~zip'.inflate_pending /\ zip'.on_done = 0
  <2>1. CASE UNCHANGED zip
    BY <2>1 DEF Inv, Typed
  <2>2. CASE ~busy(zip) /\ request = NoRequest /\ zip' = [Zero EXCEPT !.fetch = TRUE]
    <3>1. zip.on_done = 0
      BY <2>2 DEF Inv, Owned
    <3>2. /\ zip' \in ZipRecords /\ zip'.on_done = 0 /\ zip'.state = "IDLE"
          /\ ~zip'.inflate_pending
      BY <2>2 DEF Zero, ZipRecords, States, Errors
    <3> QED BY <2>2, <3>1, <3>2
  <2> QED BY <2>1, <2>2 DEF StartRefused
<1>3. Typed'
  BY <1>1, <1>2 DEF Inv, Typed
<1>4. Owned'
  BY <1>1, <1>2 DEF Inv, Owned, busy, NoRequest
<1>5. Asked'
  <2>1. CASE request.owner = "zip"
    <3>1. zip' = zip
      BY <1>2, <2>1 DEF NoRequest
    <3> QED BY <1>1, <3>1 DEF Inv, Asked
  <2>2. CASE request.owner # "zip"
    BY <1>1, <2>2 DEF Asked
  <2> QED BY <2>1, <2>2
<1>6. OneOwed'
  <2>1. zip.on_done # d
    BY <1>1 DEF Inv, OneOwed
  <2> QED BY <1>1, <1>2, <2>1 DEF Inv, Typed, OneOwed
<1>7. EntryListed(zip)' /\ ResultIsMember' /\ VerdictDeserved'
  BY <1>1, <1>2 DEF Inv, EntryListed, ResultIsMember, VerdictDeserved, Lists
<1>8. Unswapped'
  BY <1>1, <1>2 DEF Inv, Unswapped, OnTheWay, Landed
<1> QED BY <1>3, <1>4, <1>5, <1>6, <1>7, <1>8 DEF Inv

\* start() accepts.
LEMMA StartInv == ASSUME Inv, NEW d \in Downloads, Start(d) PROVE Inv'
<1>1. /\ phase[d] = "unused" /\ phase' = [phase EXCEPT ![d] = "accepted"]
      /\ ~busy(zip) /\ request' = [owner |-> "zip"] /\ first' = archive
      /\ UNCHANGED <<archive, files, calls>>
  BY DEF Start
<1>2. /\ zip' \in ZipRecords /\ zip'.on_done = d /\ zip'.state = "MEASURING"
      /\ zip'.step = "NULL" /\ zip'.zip_size = 0 /\ ~zip'.inflate_pending
      /\ zip'.fetch /\ ~zip'.directory_only
  BY ZeroTyped DEF Start
<1>3. d # 0 /\ zip.on_done = 0
  BY <1>1, ZipAssumption DEF Inv, Owned
<1>4. Typed'
  BY <1>1, <1>2 DEF Inv, Typed
<1>5. Owned'
  BY <1>1, <1>2, <1>3 DEF Owned, busy
<1>6. Asked'
  BY <1>1, <1>2 DEF Asked, StepOf
<1>7. OneOwed'
  BY <1>1, <1>2, <1>3, ZipAssumption DEF Inv, Typed, OneOwed
<1>8. EntryListed(zip)' /\ ResultIsMember' /\ VerdictDeserved' /\ Unswapped'
  BY <1>2 DEF EntryListed, ResultIsMember, VerdictDeserved, Unswapped, OnTheWay, Landed
<1> QED BY <1>4, <1>5, <1>6, <1>7, <1>8 DEF Inv

\* cancel(): no request of the download is left, since it had a fetcher to stop.
LEMMA CancelInv == ASSUME Inv, Cancel PROVE Inv'
<1>1. /\ zip' \in ZipRecords /\ zip'.on_done = 0 /\ zip'.state = "IDLE"
      /\ ~zip'.inflate_pending
  BY DEF Cancel, Inv, Typed, ZipRecords, States
<1>2. /\ phase' = [d \in Downloads |-> IF d = zip.on_done THEN "cancelled" ELSE phase[d]]
      /\ UNCHANGED <<archive, first, calls>> /\ DOMAIN files' \subseteq DOMAIN files
      /\ request' \in {NoRequest, request}
  BY DEF Cancel, unlink
<1>3. request'.owner # "zip"
  <2>1. CASE zip.fetch
    BY <2>1 DEF Cancel, NoRequest
  <2>2. CASE ~zip.fetch
    BY <2>2 DEF Cancel, Inv, Owned
  <2> QED BY <2>1, <2>2
<1>4. Typed'
  BY <1>1, <1>2 DEF Inv, Typed
<1>5. Owned' /\ Asked'
  BY <1>1, <1>3 DEF Owned, Asked, busy
<1>6. OneOwed'
  BY <1>1, <1>2, ZipAssumption DEF Inv, Typed, OneOwed
<1>7. EntryListed(zip)' /\ ResultIsMember' /\ VerdictDeserved' /\ Unswapped'
  BY <1>1 DEF EntryListed, ResultIsMember, VerdictDeserved, Unswapped, OnTheWay, Landed
<1> QED BY <1>4, <1>5, <1>6, <1>7 DEF Inv

\* Nothing happens.
LEMMA StutterInv == ASSUME Inv, UNCHANGED vars PROVE Inv'
<1>1. Typed' /\ Owned' /\ Asked' /\ OneOwed'
  BY DEF vars, Inv, Typed, Owned, Asked, OneOwed
<1>2. EntryListed(zip)' /\ ResultIsMember' /\ VerdictDeserved' /\ Unswapped'
  BY DEF vars, Inv, EntryListed, ResultIsMember, Unswapped, VerdictDeserved, Landed
<1> QED BY <1>1, <1>2 DEF Inv

\* Every step keeps the invariant.
LEMMA StepInv == ASSUME Inv, [Next]_vars PROVE Inv'
<1>1. CASE Answered
  BY <1>1, FailedInv, MeasuredInv, RangeAnsweredInv DEF Answered
<1>2. CASE BodyBegins \/ Replace \/ OtherRequest
  BY <1>2, BodyBeginsInv, ReplaceInv, OtherRequestInv
<1>3. CASE \E d \in Downloads : StartRefused(d) \/ Start(d)
  BY <1>3, StartRefusedInv, StartInv
<1>4. CASE Tick \/ Cancel
  BY <1>4, TickInv, CancelInv
<1>5. CASE UNCHANGED vars
  BY <1>5, StutterInv
<1> QED BY <1>1, <1>2, <1>3, <1>4, <1>5 DEF Next

-----------------------------------------------------------------------------
(* The theorems. *)

\* The invariant holds in every state, of any set of downloads and archives, any
\* replacements, and any window and limits.
THEOREM Invariant == SafeSpec => []Inv
<1>1. Init => Inv
  BY InitInv
<1>2. Inv /\ [Next]_vars => Inv'
  BY StepInv
<1> QED BY <1>1, <1>2, PTL DEF SafeSpec

\* StagedFilesOwned: a download always waits for its own request or for the tick
\* that unpacks, and nothing but a finished result is left in the staging
\* directory when it has ended.
THEOREM OwnsFiles == SafeSpec => []StagedFilesOwned
<1>1. Inv => StagedFilesOwned
  <2> SUFFICES ASSUME Inv PROVE StagedFilesOwned
    OBVIOUS
  <2>1. TypeOK
    <3>1. DOMAIN zip = DOMAIN Zero
      BY DEF Inv, Typed, ZipRecords, Zero
    <3>2. request.owner \in {"none", "zip", "other"}
      BY DEF Inv, Typed, NoRequest, Ranges
    <3> QED BY <3>1, <3>2 DEF Inv, Typed, TypeOK, ZipRecords, States, Errors, Staged, Names
  <2> QED BY <2>1 DEF Inv, Owned, StagedFilesOwned
<1> QED BY <1>1, Invariant, PTL

\* ResultIsMember: what is handed over is the whole of the wanted member, as the
\* directory of an archive the server had during the download describes it.
THEOREM HandsOverMember == SafeSpec => []ResultIsMember
<1>1. Inv => ResultIsMember
  BY DEF Inv
<1> QED BY <1>1, Invariant, PTL

\* VerdictDeserved: the chain of requests comes to the verdict on an archive that
\* a reader of the whole of it would give.
THEOREM VerdictsDeserved == SafeSpec => []VerdictDeserved
<1>1. Inv => VerdictDeserved
  BY DEF Inv
<1> QED BY <1>1, Invariant, PTL

-----------------------------------------------------------------------------
(* The promise to the caller. *)

\* A step of the fetcher or of the tick answers the download, or leaves it.
LEMMA AnswersComplete ==
    ASSUME Inv, Answers, UNCHANGED phase, zip.on_done \in Downloads
    PROVE  C!Answer(zip.on_done) \/ UNCHANGED C!vars
<1> DEFINE d == zip.on_done
<1>1. phase[d] = "accepted" /\ calls[d] = 0 /\ calls \in [Downloads -> {0, 1}]
  BY DEF Inv, OneOwed, Typed
<1>2. CASE calls' = calls
  BY <1>2 DEF C!vars
<1>3. CASE calls' = [e \in Downloads |-> calls[e] + IF e = d THEN 1 ELSE 0]
  <2> HIDE DEF d
  <2>1. [calls EXCEPT ![d] = 1] = [e \in Downloads |-> IF e = d THEN 1 ELSE calls[e]]
    BY <1>1
  <2>2. \A e \in Downloads :
           calls[e] + (IF e = d THEN 1 ELSE 0) = IF e = d THEN 1 ELSE calls[e]
    BY <1>1
  <2>3. calls' = [calls EXCEPT ![d] = 1]
    BY <1>3, <2>1, <2>2
  <2> QED BY <1>1, <2>3 DEF C!Answer, C!Outstanding, d
<1> QED BY <1>2, <1>3 DEF Answers

\* Every step is a step of Completion or none the caller sees.
LEMMA StepImplements == ASSUME Inv, [Next]_vars PROVE C!Next \/ UNCHANGED C!vars
<1>1. CASE Answered \/ Tick
  <2>1. Answers /\ UNCHANGED phase
    <3>1. CASE Answered
      BY <3>1, FailedInv, MeasuredInv, RangeAnsweredInv
      DEF Answered, OnFetchFailed, OnFetchMeasured, OnFetchRange
    <3>2. CASE Tick
      BY <3>2, TickInv DEF Tick
    <3> QED BY <1>1, <3>1, <3>2
  <2>2. zip.on_done \in Downloads
    <3>1. request.owner = "zip" \/ zip.inflate_pending
      BY <1>1 DEF Answered, OnFetchFailed, OnFetchMeasured, OnFetchRange, Tick
    <3>2. zip.on_done # 0
      BY <3>1 DEF Inv, Owned
    <3> QED BY <3>2 DEF Inv, Typed, ZipRecords
  <2> QED BY <2>1, <2>2, AnswersComplete DEF C!Next, C!Settle
<1>2. CASE BodyBegins \/ Replace \/ OtherRequest \/ UNCHANGED vars
  BY <1>2 DEF BodyBegins, Replace, OtherRequest, vars, C!vars
<1>3. ASSUME NEW d \in Downloads, StartRefused(d) PROVE C!Next
  <2>1. C!Refuse(d)
    BY <1>3 DEF StartRefused, C!Refuse
  <2> QED BY <2>1 DEF C!Next
<1>4. ASSUME NEW d \in Downloads, Start(d) PROVE C!Next
  <2>1. zip.on_done = 0
    BY <1>4 DEF Start, Inv, Owned
  <2>2. \A q \in Downloads : ~C!Outstanding(q)
    BY <2>1, ZipAssumption DEF Inv, OneOwed, C!Outstanding
  <2>3. C!Accept(d)
    BY <1>4, <2>2 DEF Start, C!Accept
  <2> QED BY <2>3 DEF C!Next
<1>5. CASE Cancel
  <2>1. /\ phase' = [d \in Downloads |-> IF d = zip.on_done THEN "cancelled" ELSE phase[d]]
        /\ calls' = calls
    BY <1>5 DEF Cancel
  <2>2. CASE zip.on_done \in Downloads
    <3>1. C!Outstanding(zip.on_done)
      BY <2>2 DEF Inv, OneOwed, C!Outstanding
    <3>2. phase' = [phase EXCEPT ![zip.on_done] = "cancelled"]
      BY <2>1, <2>2 DEF Inv, Typed
    <3>3. C!Cancel(zip.on_done)
      BY <2>1, <3>1, <3>2 DEF C!Cancel
    <3> QED BY <2>2, <3>3 DEF C!Next, C!Settle
  <2>3. CASE zip.on_done \notin Downloads
    <3>1. phase' = phase
      BY <2>1, <2>3 DEF Inv, Typed
    <3> QED BY <2>1, <3>1 DEF C!vars
  <2> QED BY <2>2, <2>3
<1> QED BY <1>1, <1>2, <1>3, <1>4, <1>5 DEF Next

\* The download implements the safety of Completion: it is refused or accepted,
\* answered at most once, and never after a cancellation.
THEOREM Implements == SafeSpec => C!SafeSpec
<1>1. Init => C!Init
  BY DEF Init, C!Init
<1>2. Inv /\ [Next]_vars => [C!Next]_(C!vars)
  BY StepImplements
<1> QED BY <1>1, <1>2, Invariant, PTL DEF SafeSpec, C!SafeSpec
=============================================================================
