---------------------------- MODULE FetchProofs ----------------------------
(***************************************************************************)
(* Proofs about the HTTPS client, for every set of jobs and replies and    *)
(* any number of requests, addresses, redirects and reads in a turn: what  *)
(* it holds and listens for, that a body that is reported whole is whole,  *)
(* that a POST goes out once, that a silence is one, and that the client   *)
(* implements the one-shot request of module Completion.                   *)
(***************************************************************************)
EXTENDS Fetch, SequenceTheorems, TLAPS

-----------------------------------------------------------------------------
(* The reply, as far as it has been read. *)

Skip(s) == IF s.interim THEN 1 ELSE 0

Bodiless(s, h) == h \/ s.status \in {204, 304}

Chunked(s) == s.coding \in {"chunked", "both"}

\* How many units follow the final head.
After(s, h) ==
    IF Bodiless(s, h) THEN 0 ELSE IF Chunked(s) THEN 3 * s.length + 2 ELSE s.length

Size(s, h) == Skip(s) + 1 + After(s, h)

\* The first n bytes of a body, and how many of them i units of chunks have brought.
Bytes(n) == [k \in 1 .. n |-> k]

ChunkBytes(s, i) == IF i >= 3 * s.length THEN s.length ELSE (i + 1) \div 3

\* The phase of the codec after i units of a chunked body.
ChunkPhase(s, i) ==
    IF i = 3 * s.length + 1 THEN "TRAILER"
    ELSE IF i = 3 * s.length + 2 THEN "DONE"
    ELSE IF i % 3 = 0 THEN "CHUNK_SIZE"
    ELSE IF i % 3 = 1 THEN "CHUNK_DATA" ELSE "CHUNK_END"

\* The codec and the body i units into the body of reply s to a request that was a
\* HEAD or was none.
IntoBody(s, h, i, r, b) ==
    /\ r.status = s.status
    /\ IF Bodiless(s, h) THEN r.phase = "DONE" /\ b = <<>>
       ELSE IF Chunked(s)
       THEN /\ r.phase = ChunkPhase(s, i)
            /\ r.phase = "CHUNK_DATA" => r.remaining = 1
            /\ b = Bytes(ChunkBytes(s, i))
       ELSE IF s.coding = "length"
       THEN /\ r.phase = (IF i = s.length THEN "DONE" ELSE "LENGTH")
            /\ r.remaining = s.length - i
            /\ b = Bytes(i)
       ELSE r.phase = "UNTIL_CLOSE" /\ r.framing = "UNTIL_CLOSE" /\ b = Bytes(i)

\* The same after p units of all of the reply.
SoFar(s, h, p, r, b) ==
    IF p <= Skip(s) THEN r = response_init(h) /\ b = <<>>
    ELSE IntoBody(s, h, p - Skip(s) - 1, r, b)

-----------------------------------------------------------------------------
(* The inductive invariant. *)

\* What is held, and by whom.
Holds ==
    /\ held = [sockets |-> Count(conn.socket), files |-> Count(conn.out_fd)]
    /\ lookup => conn.id # 0 /\ conn.phase = "RESOLVING"
    /\ conn.id = 0 => conn = NoConn
    /\ conn.out_fd => conn.phase = "RECEIVING" /\ head_done(conn.response)

Waits == {"app", "tick", "resolve_tick"}

\* Where the thread is and where the request is belong together.
Places ==
    /\ pc \in {"hop", "try"} => conn.id # 0 /\ ~lookup /\ ~conn.socket /\ ~conn.out_fd
    /\ pc = "try" => conn.phase \in {"RESOLVING", "CONNECTING"}
    /\ pc = "handshake" => conn.phase = "HANDSHAKE"
    /\ pc = "send" => conn.phase = "SENDING"
    /\ pc = "receive" => conn.phase = "RECEIVING"
    /\ pc \in {"handshake", "send", "receive"} => conn.id # 0 /\ conn.socket
    /\ pc \in Waits /\ conn.id # 0 =>
          (conn.phase = "RESOLVING" => lookup) /\ (conn.phase # "RESOLVING" => conn.socket)
    /\ conn.socket => conn.phase # "RESOLVING"
    /\ pc = "down" => conn.id = 0

\* Which functions are on the stack.
Stack ==
    /\ starting => pc \in {"hop", "try"}
    /\ nested => pc \in {"app", "hop", "try"}
    /\ nested /\ pc \in {"hop", "try"} => starting
    /\ pc = "app" /\ ~nested => ~ticking
    /\ pc \in {"tick", "resolve_tick"} => ticking /\ ~nested
    /\ pc \in {"handshake", "send", "receive", "down"} => ~ticking
    /\ ticking /\ pc \in {"hop", "try"} => nested \/ pc = "try"

\* The direction the loop waits in.
Listens ==
    /\ pc \in Waits /\ conn.phase \in {"HANDSHAKE", "SENDING", "RECEIVING"}
          => conn.armed \in {IF wants_write THEN "OUT" ELSE "IN", "refused"}
    /\ pc = "receive" /\ reads > 0 => ~wants_write

\* How often the bytes of a POST have begun to go out.
Once ==
    /\ conn.unsent <= 1 + conn.job.upload
    /\ conn.id = 0 => reached = 0
    /\ conn.job.method = "POST" =>
          /\ reached <= 1
          /\ conn.phase \in {"RESOLVING", "CONNECTING", "HANDSHAKE"} => reached = 0
          /\ conn.phase = "SENDING" /\ conn.unsent = 1 + conn.job.upload => reached = 0
          /\ pc = "hop" => conn.phase = "RESOLVING"

\* Nothing has moved since the last stamp unless a tick is told so.
Silence ==
    conn.phase \in {"SENDING", "RECEIVING"} /\ ~conn.progressed /\ pc # "hop"
        => clock.stamp <= clock.moved

\* What the caller has been told.
Answers ==
    /\ starting => returned[conn.id] = "unused"
    /\ conn.id # 0 /\ ~starting => returned[conn.id] = "accepted" /\ calls[conn.id] = 0
    /\ \A r \in Requests : returned[r] = "unused" => calls[r] = 0
    /\ \A r \in Requests : returned[r] = "accepted" /\ calls[r] = 0 => conn.id = r /\ ~starting

\* What has been read on c is the first p units of s.
HasReadTo(c, s, p) ==
    LET h == c.job.method = "HEAD"
    IN  /\ server = [reply |-> s, left |-> SubSeq(Reply(s, h), p + 1, Size(s, h))]
        /\ SoFar(s, h, p, c.response, c.body)
        /\ c.phase = "SENDING" => p = 0

\* What has been read is the beginning of what the server means to send.
Reads ==
    /\ conn.phase \notin {"SENDING", "RECEIVING"} \/ pc = "hop" => conn.body = <<>>
    /\ conn.phase \in {"SENDING", "RECEIVING"} /\ pc # "hop" =>
          \E s \in Replies : \E p \in 0 .. Size(s, IsHead) : HasReadTo(conn, s, p)

Inv ==
    /\ TypeOK /\ Holds /\ Places /\ Stack /\ Listens /\ Once /\ Silence /\ Answers
    /\ Reads /\ BodyWhole

-----------------------------------------------------------------------------
(* What the server sends, unit by unit. *)

Units ==
    [kind : {"head"}, status : Nat, chunked : BOOLEAN, length : Int, location : Locations]
      \cup [kind : {"byte", "size"}, n : Nat] \cup {EolUnit, TrailerUnit}

Interim == HeadUnit(103, FALSE, NoLength, "none")

Said(s) ==
    HeadUnit(s.status, s.coding \in {"chunked", "both"},
             IF s.coding = "length" THEN s.length
             ELSE IF s.coding = "both" THEN 0 ELSE NoLength, s.location)

ChunkUnit(s, i) ==
    IF i = 3 * s.length + 1 THEN SizeUnit(0)
    ELSE IF i = 3 * s.length + 2 THEN TrailerUnit
    ELSE IF i % 3 = 1 THEN SizeUnit(1)
    ELSE IF i % 3 = 2 THEN ByteUnit((i + 1) \div 3) ELSE EolUnit

BodyUnit(s, i) == IF Chunked(s) THEN ChunkUnit(s, i) ELSE ByteUnit(i)

ReplySet ==
    [status : 200 .. 999, coding : {"length", "chunked", "both", "close"},
     length : Nat, location : Locations, interim : BOOLEAN]

\* A number is three times another and a rest.
LEMMA Thirds ==
    ASSUME NEW i \in Nat
    PROVE  \E x \in Nat, c \in 0 .. 2 :
              /\ i = 3 * x + c /\ i % 3 = c
              /\ (i + 1) \div 3 = IF c = 2 THEN x + 1 ELSE x
<1>1. /\ i \div 3 \in Nat /\ i % 3 \in 0 .. 2 /\ i = 3 * (i \div 3) + (i % 3)
  OBVIOUS
<1>2. (i + 1) \div 3 = IF i % 3 = 2 THEN (i \div 3) + 1 ELSE i \div 3
  OBVIOUS
<1> QED BY <1>1, <1>2

LEMMA UnitTypes ==
    ASSUME NEW s \in ReplySet
    PROVE  /\ Interim \in Units /\ Said(s) \in Units
           /\ \A i \in Nat : BodyUnit(s, i) \in Units
<1>1. Interim \in Units
  BY DEF Interim, HeadUnit, Units, NoLength, Locations
<1>2. Said(s) \in Units
  BY DEF Said, HeadUnit, Units, NoLength, Locations, ReplySet
<1>3. ASSUME NEW n \in Nat PROVE ByteUnit(n) \in Units /\ SizeUnit(n) \in Units
  BY DEF ByteUnit, SizeUnit, Units
<1>4. EolUnit \in Units /\ TrailerUnit \in Units
  BY DEF Units
<1>5. ASSUME NEW i \in Nat PROVE BodyUnit(s, i) \in Units
  <2>1. (i + 1) \div 3 \in Nat /\ 0 \in Nat /\ 1 \in Nat
    OBVIOUS
  <2> QED BY <1>3, <1>4, <2>1 DEF BodyUnit, ChunkUnit
<1> QED BY <1>1, <1>2, <1>5

\* The units of a reply: an interim head, the head, the body.
LEMMA ReplyIs ==
    ASSUME NEW s \in ReplySet, NEW h \in BOOLEAN
    PROVE  /\ Reply(s, h) \in Seq(Units) /\ Len(Reply(s, h)) = Size(s, h)
           /\ Size(s, h) \in Nat
           /\ s.interim => Reply(s, h)[1] = Interim
           /\ Reply(s, h)[Skip(s) + 1] = Said(s)
           /\ \A i \in 1 .. After(s, h) : Reply(s, h)[Skip(s) + 1 + i] = BodyUnit(s, i)
<1> DEFINE first == IF s.interim THEN <<Interim>> ELSE <<>>
           n == After(s, h)
           body == [i \in 1 .. n |-> BodyUnit(s, i)]
           rest == <<Said(s)>>
<1>1. s.length \in Nat /\ s.interim \in BOOLEAN
  BY DEF ReplySet
<1>2. n \in Nat /\ Skip(s) \in {0, 1}
  BY <1>1 DEF After, Skip
<1>3. Reply(s, h) = (first \o rest) \o body
  <2>1. CASE Bodiless(s, h)
    <3>1. body = <<>>
      BY <2>1 DEF After
    <3> QED BY <2>1, <3>1 DEF Reply, Bodiless, Interim, Said
  <2>2. CASE ~Bodiless(s, h) /\ Chunked(s)
    <3>1. body = [i \in 1 .. 3 * s.length + 2 |-> ChunkUnit(s, i)]
      BY <2>2 DEF After, BodyUnit
    <3> QED BY <2>2, <3>1 DEF Reply, Bodiless, Chunked, Interim, Said, ChunkUnit
  <2>3. CASE ~Bodiless(s, h) /\ ~Chunked(s)
    <3>1. body = [i \in 1 .. s.length |-> ByteUnit(i)]
      BY <2>3 DEF After, BodyUnit
    <3> QED BY <2>3, <3>1 DEF Reply, Bodiless, Chunked, Interim, Said
  <2> QED BY <2>1, <2>2, <2>3
<1>4. first \in Seq(Units) /\ Len(first) = Skip(s) /\ (s.interim => first[1] = Interim)
  BY UnitTypes DEF Skip
<1>5. rest \in Seq(Units) /\ Len(rest) = 1 /\ rest[1] = Said(s)
  BY UnitTypes
<1>6. body \in Seq(Units) /\ Len(body) = n /\ \A i \in 1 .. n : body[i] = BodyUnit(s, i)
  <2>1. \A i \in 1 .. n : BodyUnit(s, i) \in Units
    BY <1>2, UnitTypes
  <2> HIDE DEF n
  <2>2. body \in [1 .. n -> Units]
    BY <2>1
  <2> QED BY <1>2, <2>2
<1> HIDE DEF first, rest, body, n
<1>7. /\ first \o rest \in Seq(Units) /\ Len(first \o rest) = Skip(s) + 1
      /\ s.interim => (first \o rest)[1] = Interim
      /\ (first \o rest)[Skip(s) + 1] = Said(s)
  <2>1. /\ first \o rest \in Seq(Units) /\ Len(first \o rest) = Len(first) + Len(rest)
        /\ \A i \in 1 .. Len(first) + Len(rest) : (first \o rest)[i] =
              IF i <= Len(first) THEN first[i] ELSE rest[i - Len(first)]
    BY <1>4, <1>5, ConcatProperties
  <2>2. CASE s.interim
    BY <1>4, <1>5, <2>1, <2>2 DEF Skip
  <2>3. CASE ~s.interim
    BY <1>4, <1>5, <2>1, <2>3 DEF Skip
  <2> QED BY <2>2, <2>3
<1> DEFINE front == first \o rest
<1> HIDE DEF front
<1>8. /\ front \o body \in Seq(Units) /\ Len(front \o body) = Skip(s) + 1 + n
      /\ \A i \in 1 .. Skip(s) + 1 + n : (front \o body)[i] =
            IF i <= Skip(s) + 1 THEN front[i] ELSE body[i - (Skip(s) + 1)]
  <2>1. front \in Seq(Units) /\ Len(front) = Skip(s) + 1
    BY <1>7 DEF front
  <2>2. /\ front \o body \in Seq(Units) /\ Len(front \o body) = Len(front) + Len(body)
        /\ \A i \in 1 .. Len(front) + Len(body) : (front \o body)[i] =
              IF i <= Len(front) THEN front[i] ELSE body[i - Len(front)]
    BY <1>6, <2>1, ConcatProperties
  <2> QED BY <1>6, <2>1, <2>2
<1>9. /\ s.interim => (front \o body)[1] = Interim
      /\ (front \o body)[Skip(s) + 1] = Said(s)
  BY <1>2, <1>7, <1>8 DEF front
<1>10. ASSUME NEW i \in 1 .. n PROVE (front \o body)[Skip(s) + 1 + i] = BodyUnit(s, i)
  <2>1. /\ Skip(s) + 1 + i \in 1 .. Skip(s) + 1 + n /\ ~(Skip(s) + 1 + i <= Skip(s) + 1)
        /\ (Skip(s) + 1 + i) - (Skip(s) + 1) = i
    BY <1>2
  <2> QED BY <1>6, <1>8, <2>1
<1>11. Size(s, h) = Skip(s) + 1 + n /\ Size(s, h) \in Nat
  BY <1>2 DEF Size, n
<1> QED BY <1>3, <1>8, <1>9, <1>10, <1>11 DEF front, n

-----------------------------------------------------------------------------
(* What the codec makes of them. *)

LEMMA NextByte ==
    ASSUME NEW n \in Nat
    PROVE  Bytes(n) \in Seq(Nat) /\ Len(Bytes(n)) = n /\ Append(Bytes(n), n + 1) = Bytes(n + 1)
<1>1. Bytes(n) \in Seq(Nat) /\ Len(Bytes(n)) = n
  BY DEF Bytes
<1>2. Bytes(n + 1) \in Seq(Nat) /\ Len(Bytes(n + 1)) = n + 1
  BY DEF Bytes
<1>3. /\ Append(Bytes(n), n + 1) \in Seq(Nat)
      /\ Len(Append(Bytes(n), n + 1)) = n + 1
      /\ \A i \in 1 .. n : Append(Bytes(n), n + 1)[i] = Bytes(n)[i]
      /\ Append(Bytes(n), n + 1)[n + 1] = n + 1
  BY <1>1, AppendProperties
<1>4. ASSUME NEW i \in 1 .. n + 1 PROVE Append(Bytes(n), n + 1)[i] = Bytes(n + 1)[i]
  <2>1. Bytes(n + 1)[i] = i
    BY DEF Bytes
  <2>2. CASE i = n + 1
    BY <1>3, <2>1, <2>2
  <2>3. CASE i # n + 1
    <3>1. i \in 1 .. n /\ Bytes(n)[i] = i
      BY <2>3 DEF Bytes
    <3> QED BY <1>3, <2>1, <3>1
  <2> QED BY <2>2, <2>3
<1>5. Append(Bytes(n), n + 1) = Bytes(n + 1)
  BY <1>2, <1>3, <1>4, SeqEqual
<1> QED BY <1>1, <1>5

\* An interim head leaves the codec as it was.
LEMMA FeedInterim ==
    ASSUME NEW h \in BOOLEAN
    PROVE  response_feed(response_init(h), Interim) = response_init(h)
BY DEF response_feed, response_init, InBody, Interim, HeadUnit, http_parse_head

LEMMA FreshResponse ==
    ASSUME NEW T, NEW h \in BOOLEAN
    PROVE  /\ response_init(h) \in Responses(T) /\ response_init(h).head_request = h
           /\ response_init(h).phase = "HEAD" /\ response_init(h).status = 0
           /\ ~head_done(response_init(h)) /\ ~InBody(response_init(h))
BY DEF Responses, response_init, Locations, head_done, InBody

\* The final head puts it where the body begins.
LEMMA FeedHead ==
    ASSUME NEW s \in ReplySet, NEW h \in BOOLEAN, NEW T, s.status \in T
    PROVE  LET r == response_feed(response_init(h), Said(s))
           IN  r \in Responses(T) /\ IntoBody(s, h, 0, r, <<>>) /\ head_done(r)
<1> DEFINE r == response_feed(response_init(h), Said(s))
           r0 == response_init(h)
<1>1. /\ s.status \in 200 .. 999 /\ s.length \in Nat /\ s.interim \in BOOLEAN
      /\ s.coding \in {"length", "chunked", "both", "close"} /\ s.location \in Locations
  BY DEF ReplySet
<1>3. r = http_parse_head(r0, Said(s))
  BY DEF response_feed, response_init, InBody, Said, HeadUnit
<1>4. Bytes(0) = <<>>
  BY DEF Bytes
<1>5. /\ Said(s).status = s.status /\ Said(s).location = s.location
      /\ Said(s).chunked = Chunked(s)
      /\ s.coding = "length" => Said(s).length = s.length
      /\ s.coding = "close" => Said(s).length = NoLength
  BY <1>1 DEF Said, HeadUnit, Chunked
<1>6. /\ r0 \in Responses(T) /\ r0.head_request = h /\ s.status # 101 /\ ~(s.status < 200)
      /\ s.status # 0
  <2>1. r0 \in Responses(T) /\ r0.head_request = h
    BY FreshResponse
  <2>2. s.status # 101 /\ ~(s.status < 200) /\ s.status # 0
    BY <1>1, SMTT(40)
  <2> QED BY <2>1, <2>2
<1>7. 0 \in Nat /\ Said(s).status \in T /\ Said(s).location \in Locations
  BY <1>1, <1>5
<1> HIDE DEF r, r0
<1>8. CASE Bodiless(s, h)
  <2>1. r = Framed(r0, Said(s), "NONE", "DONE", 0)
    BY <1>3, <1>5, <1>6, <1>8 DEF http_parse_head, Bodiless
  <2>2. r \in Responses(T) /\ r.status = s.status /\ r.phase = "DONE"
    BY <1>5, <1>6, <1>7, <2>1 DEF Framed, Responses
  <2> QED BY <1>6, <1>8, <2>2 DEF IntoBody, head_done, r
<1>9. CASE ~Bodiless(s, h) /\ Chunked(s)
  <2>1. r = Framed(r0, Said(s), "CHUNKED", "CHUNK_SIZE", 0)
    BY <1>3, <1>5, <1>6, <1>9 DEF http_parse_head, Bodiless
  <2>2. ChunkPhase(s, 0) = "CHUNK_SIZE" /\ Bytes(ChunkBytes(s, 0)) = <<>>
    <3>1. ChunkPhase(s, 0) = "CHUNK_SIZE"
      BY <1>1 DEF ChunkPhase
    <3>2. ChunkBytes(s, 0) = 0
      BY <1>1 DEF ChunkBytes
    <3> QED BY <1>4, <3>1, <3>2
  <2>3. r \in Responses(T) /\ r.phase = "CHUNK_SIZE" /\ r.status = s.status
    BY <1>5, <1>6, <1>7, <2>1 DEF Framed, Responses
  <2> QED BY <1>6, <1>9, <2>2, <2>3 DEF IntoBody, head_done, r
<1>10. CASE ~Bodiless(s, h) /\ ~Chunked(s) /\ s.coding = "length"
  <2>1. r = Framed(r0, Said(s), "LENGTH",
                   IF s.length = 0 THEN "DONE" ELSE "LENGTH", s.length)
    <3>1. Said(s).length # NoLength
      BY <1>1, <1>5, <1>10 DEF NoLength
    <3> QED BY <1>3, <1>5, <1>6, <1>10, <3>1 DEF http_parse_head, Bodiless
  <2>2. /\ r \in Responses(T) /\ r.phase = (IF s.length = 0 THEN "DONE" ELSE "LENGTH")
        /\ r.remaining = s.length /\ r.status = s.status
    BY <1>1, <1>5, <1>6, <1>7, <2>1 DEF Framed, Responses
  <2>3. s.length - 0 = s.length
    BY <1>1
  <2> QED BY <1>4, <1>6, <1>10, <2>2, <2>3 DEF IntoBody, head_done, r
<1>11. CASE ~Bodiless(s, h) /\ ~Chunked(s) /\ s.coding = "close"
  <2>1. r = Framed(r0, Said(s), "UNTIL_CLOSE", "UNTIL_CLOSE", 0)
    BY <1>3, <1>5, <1>6, <1>11 DEF http_parse_head, Bodiless
  <2>2. /\ r \in Responses(T) /\ r.phase = "UNTIL_CLOSE" /\ r.framing = "UNTIL_CLOSE"
        /\ r.status = s.status
    BY <1>5, <1>6, <1>7, <2>1 DEF Framed, Responses
  <2> QED BY <1>4, <1>6, <1>11, <2>2 DEF IntoBody, head_done, r
<1> QED BY <1>1, <1>8, <1>9, <1>10, <1>11 DEF Chunked

\* A chunk is three units, and the last one two.
LEMMA ChunkOf ==
    ASSUME NEW s, s.length \in Nat, NEW x \in Nat, x < s.length
    PROVE  /\ ChunkUnit(s, 3 * x + 1) = SizeUnit(1)
           /\ ChunkUnit(s, 3 * x + 2) = ByteUnit(x + 1)
           /\ ChunkUnit(s, 3 * x + 3) = EolUnit
           /\ ChunkPhase(s, 3 * x) = "CHUNK_SIZE" /\ ChunkBytes(s, 3 * x) = x
           /\ ChunkPhase(s, 3 * x + 1) = "CHUNK_DATA" /\ ChunkBytes(s, 3 * x + 1) = x
           /\ ChunkPhase(s, 3 * x + 2) = "CHUNK_END" /\ ChunkBytes(s, 3 * x + 2) = x + 1
<1> DEFINE n == s.length
<1>1. /\ 3 * x + 1 # 3 * n + 1 /\ 3 * x + 1 # 3 * n + 2 /\ 3 * x + 2 # 3 * n + 1
      /\ 3 * x + 2 # 3 * n + 2 /\ 3 * x + 3 # 3 * n + 1 /\ 3 * x + 3 # 3 * n + 2
      /\ 3 * x # 3 * n + 1 /\ 3 * x # 3 * n + 2
      /\ ~(3 * x >= 3 * n) /\ ~(3 * x + 1 >= 3 * n) /\ ~(3 * x + 2 >= 3 * n)
  OBVIOUS
<1>2. /\ (3 * x) % 3 = 0 /\ (3 * x + 1) % 3 = 1 /\ (3 * x + 2) % 3 = 2 /\ (3 * x + 3) % 3 = 0
      /\ (3 * x + 2 + 1) \div 3 = x + 1 /\ (3 * x + 1) \div 3 = x
      /\ (3 * x + 1 + 1) \div 3 = x
  OBVIOUS
<1>3. /\ ChunkUnit(s, 3 * x + 1) = SizeUnit(1)
      /\ ChunkUnit(s, 3 * x + 2) = ByteUnit(x + 1)
      /\ ChunkUnit(s, 3 * x + 3) = EolUnit
  BY <1>1, <1>2 DEF ChunkUnit
<1>4. /\ ChunkPhase(s, 3 * x) = "CHUNK_SIZE" /\ ChunkPhase(s, 3 * x + 1) = "CHUNK_DATA"
      /\ ChunkPhase(s, 3 * x + 2) = "CHUNK_END"
  BY <1>1, <1>2 DEF ChunkPhase
<1>5. /\ ChunkBytes(s, 3 * x) = x /\ ChunkBytes(s, 3 * x + 1) = x
      /\ ChunkBytes(s, 3 * x + 2) = x + 1
  BY <1>1, <1>2 DEF ChunkBytes
<1> QED BY <1>3, <1>4, <1>5

LEMMA LastChunk ==
    ASSUME NEW s, NEW n \in Nat, n = s.length
    PROVE  /\ ChunkUnit(s, 3 * n + 1) = SizeUnit(0) /\ ChunkUnit(s, 3 * n + 2) = TrailerUnit
           /\ ChunkPhase(s, 3 * n) = "CHUNK_SIZE" /\ ChunkBytes(s, 3 * n) = n
           /\ ChunkPhase(s, 3 * n + 1) = "TRAILER" /\ ChunkBytes(s, 3 * n + 1) = n
           /\ ChunkPhase(s, 3 * n + 2) = "DONE" /\ ChunkBytes(s, 3 * n + 2) = n
<1>1. /\ (3 * n) % 3 = 0 /\ 3 * n # 3 * n + 1 /\ 3 * n # 3 * n + 2 /\ 3 * n + 2 # 3 * n + 1
      /\ 3 * n >= 3 * n /\ 3 * n + 1 >= 3 * n /\ 3 * n + 2 >= 3 * n
  OBVIOUS
<1> QED BY <1>1 DEF ChunkUnit, ChunkPhase, ChunkBytes

\* Where the codec is once it has had unit u after r.
Fits(s, h, i, r, b, u, T) ==
    LET r2 == response_feed(r, u)
    IN  /\ r2 \in Responses(T) /\ r2.status = s.status
        /\ InBody(r) => u.kind = "byte" /\ u.n \in Nat /\ IntoBody(s, h, i, r2, Append(b, u.n))
        /\ ~InBody(r) => IntoBody(s, h, i, r2, b)

LEMMA FeedLength ==
    ASSUME NEW s \in ReplySet, NEW h \in BOOLEAN, NEW T, NEW i \in 0 .. After(s, h) - 1,
           NEW r \in Responses(T), NEW b, IntoBody(s, h, i, r, b), ~Chunked(s)
    PROVE  Fits(s, h, i + 1, r, b, BodyUnit(s, i + 1), T)
<1> DEFINE u == BodyUnit(s, i + 1)
           r2 == response_feed(r, u)
<1>1. /\ s.length \in Nat /\ s.coding \in {"length", "close"} /\ ~Bodiless(s, h)
      /\ i \in Nat /\ i < s.length /\ i + 1 \in Nat
  BY DEF ReplySet, After, Chunked
<1>2. u = ByteUnit(i + 1) /\ u.kind = "byte" /\ u.n = i + 1
  BY DEF BodyUnit, ByteUnit
<1>3. r.status = s.status /\ b = Bytes(i) /\ Append(b, u.n) = Bytes(i + 1)
  BY <1>1, <1>2, NextByte DEF IntoBody
<1>4. CASE s.coding = "close"
  <2>1. r.phase = "UNTIL_CLOSE" /\ r.framing = "UNTIL_CLOSE"
    BY <1>1, <1>4 DEF IntoBody
  <2>2. r2 = r /\ InBody(r)
    BY <2>1 DEF response_feed, TakeBody, InBody
  <2> HIDE DEF r2, u
  <2>3. IntoBody(s, h, i + 1, r2, Append(b, u.n))
    BY <1>1, <1>3, <1>4, <2>1, <2>2 DEF IntoBody
  <2> QED BY <1>1, <1>2, <1>3, <2>2, <2>3 DEF Fits, r2, u
<1>5. CASE s.coding = "length"
  <2>1. r.phase = "LENGTH" /\ r.remaining = s.length - i
    BY <1>1, <1>5 DEF IntoBody
  <2>2. r2 = TakeBody(r) /\ InBody(r)
    BY <2>1 DEF response_feed, InBody
  <2>3. /\ r2 \in Responses(T) /\ r2.status = r.status /\ r2.remaining = r.remaining - 1
        /\ r2.phase = IF r.remaining > 1 THEN "LENGTH" ELSE "DONE"
    <3> HIDE DEF r2
    <3>1. r.remaining - 1 \in Nat
      BY <1>1, <2>1
    <3> QED BY <2>1, <2>2, <3>1 DEF TakeBody, Responses
  <2> HIDE DEF r2, u
  <2>4. /\ r2.phase = (IF i + 1 = s.length THEN "DONE" ELSE "LENGTH")
        /\ r2.remaining = s.length - (i + 1)
    BY <1>1, <2>1, <2>3
  <2>5. IntoBody(s, h, i + 1, r2, Append(b, u.n))
    BY <1>1, <1>3, <1>5, <2>3, <2>4 DEF IntoBody
  <2> QED BY <1>1, <1>2, <1>3, <2>2, <2>3, <2>5 DEF Fits, r2, u
<1> QED BY <1>1, <1>4, <1>5

\* What the units of a chunk do to the codec.
LEMMA ChunkSteps ==
    ASSUME NEW T, NEW r \in Responses(T)
    PROVE  /\ r.phase = "CHUNK_SIZE" =>
                 /\ response_feed(r, SizeUnit(1)) =
                       [r EXCEPT !.phase = "CHUNK_DATA", !.remaining = 1]
                 /\ response_feed(r, SizeUnit(0)) = [r EXCEPT !.phase = "TRAILER"]
           /\ \A n \in Nat : r.phase = "CHUNK_DATA" /\ r.remaining = 1 =>
                 response_feed(r, ByteUnit(n)) =
                       [r EXCEPT !.remaining = 0, !.phase = "CHUNK_END"]
           /\ r.phase = "CHUNK_END" =>
                 response_feed(r, EolUnit) = [r EXCEPT !.phase = "CHUNK_SIZE"]
           /\ r.phase = "TRAILER" =>
                 response_feed(r, TrailerUnit) = [r EXCEPT !.phase = "DONE"]
<1>1. ASSUME r.phase = "CHUNK_SIZE"
      PROVE  /\ response_feed(r, SizeUnit(1)) =
                       [r EXCEPT !.phase = "CHUNK_DATA", !.remaining = 1]
             /\ response_feed(r, SizeUnit(0)) = [r EXCEPT !.phase = "TRAILER"]
  BY <1>1 DEF response_feed, InBody, SizeUnit, http_chunk_size
<1>2. ASSUME NEW n \in Nat, r.phase = "CHUNK_DATA", r.remaining = 1
      PROVE  response_feed(r, ByteUnit(n)) =
                       [r EXCEPT !.remaining = 0, !.phase = "CHUNK_END"]
  <2>1. response_feed(r, ByteUnit(n)) = TakeBody(r)
    BY <1>2 DEF response_feed, InBody
  <2>2. r.remaining - 1 = 0 /\ ~(r.remaining > 1)
    BY <1>2
  <2> QED BY <1>2, <2>1, <2>2 DEF TakeBody, Responses
<1>3. ASSUME r.phase = "CHUNK_END"
      PROVE  response_feed(r, EolUnit) = [r EXCEPT !.phase = "CHUNK_SIZE"]
  BY <1>3 DEF response_feed, InBody, EolUnit
<1>4. ASSUME r.phase = "TRAILER"
      PROVE  response_feed(r, TrailerUnit) = [r EXCEPT !.phase = "DONE"]
  BY <1>4 DEF response_feed, InBody, TrailerUnit
<1> QED BY <1>1, <1>2, <1>3, <1>4

LEMMA FeedChunk ==
    ASSUME NEW s \in ReplySet, NEW h \in BOOLEAN, NEW T, NEW i \in 0 .. After(s, h) - 1,
           NEW r \in Responses(T), NEW b, IntoBody(s, h, i, r, b), Chunked(s)
    PROVE  Fits(s, h, i + 1, r, b, BodyUnit(s, i + 1), T)
<1> DEFINE u == BodyUnit(s, i + 1)
           r2 == response_feed(r, u)
           n == s.length
<1>1. n \in Nat /\ ~Bodiless(s, h) /\ i \in Nat /\ i < 3 * n + 2
  BY DEF ReplySet, After
<1>2. /\ r.status = s.status /\ r.phase = ChunkPhase(s, i) /\ b = Bytes(ChunkBytes(s, i))
      /\ r.phase = "CHUNK_DATA" => r.remaining = 1
      /\ u = ChunkUnit(s, i + 1)
  BY <1>1 DEF IntoBody, BodyUnit
<1>3. ASSUME NEW q, NEW m \in Nat, r2 = [r EXCEPT !.phase = q, !.remaining = m],
             q \in {"CHUNK_SIZE", "CHUNK_DATA", "CHUNK_END", "TRAILER", "DONE"}
      PROVE  r2 \in Responses(T) /\ r2.status = s.status /\ r2.phase = q /\ r2.remaining = m
  <2> HIDE DEF r2
  <2> QED BY <1>2, <1>3 DEF Responses
<1>4. ASSUME NEW q, r2 = [r EXCEPT !.phase = q],
             q \in {"CHUNK_SIZE", "CHUNK_DATA", "CHUNK_END", "TRAILER", "DONE"}
      PROVE  r2 \in Responses(T) /\ r2.status = s.status /\ r2.phase = q
  <2> HIDE DEF r2
  <2> QED BY <1>2, <1>4 DEF Responses
<1>5. CASE i = 3 * n
  <2>1. /\ r.phase = "CHUNK_SIZE" /\ ChunkBytes(s, i) = n /\ u = SizeUnit(0)
        /\ ChunkPhase(s, i + 1) = "TRAILER" /\ ChunkBytes(s, i + 1) = n
    BY <1>1, <1>2, <1>5, LastChunk
  <2>2. r2 = [r EXCEPT !.phase = "TRAILER"]
    BY <2>1, ChunkSteps
  <2>3. r2 \in Responses(T) /\ r2.status = s.status /\ r2.phase = "TRAILER"
    BY <1>4, <2>2
  <2> HIDE DEF r2, u
  <2>4. IntoBody(s, h, i + 1, r2, b) /\ ~InBody(r)
    BY <1>1, <1>2, <2>1, <2>3 DEF IntoBody, InBody
  <2> QED BY <2>3, <2>4 DEF Fits, r2, u
<1>6. CASE i = 3 * n + 1
  <2>1. i + 1 = 3 * n + 2
    BY <1>1, <1>6
  <2>2. /\ r.phase = "TRAILER" /\ ChunkBytes(s, i) = n /\ u = TrailerUnit
        /\ ChunkPhase(s, i + 1) = "DONE" /\ ChunkBytes(s, i + 1) = n
    BY <1>1, <1>2, <1>6, <2>1, LastChunk
  <2>3. r2 = [r EXCEPT !.phase = "DONE"]
    BY <2>2, ChunkSteps
  <2>4. r2 \in Responses(T) /\ r2.status = s.status /\ r2.phase = "DONE"
    BY <1>4, <2>3
  <2> HIDE DEF r2, u
  <2>5. IntoBody(s, h, i + 1, r2, b) /\ ~InBody(r)
    BY <1>1, <1>2, <2>2, <2>4 DEF IntoBody, InBody
  <2> QED BY <2>4, <2>5 DEF Fits, r2, u
<1>7. CASE i < 3 * n
  <2>1. PICK x \in Nat, c \in 0 .. 2 : i = 3 * x + c
    BY <1>1, Thirds
  <2>2. x < n
    BY <1>1, <1>7, <2>1
  <2>3. CASE c = 0
    <3>1. i = 3 * x /\ i + 1 = 3 * x + 1
      BY <2>1, <2>3
    <3>2. /\ r.phase = "CHUNK_SIZE" /\ ChunkBytes(s, i) = x /\ u = SizeUnit(1)
          /\ ChunkPhase(s, i + 1) = "CHUNK_DATA" /\ ChunkBytes(s, i + 1) = x
      BY <1>1, <1>2, <2>2, <3>1, ChunkOf
    <3>3. r2 = [r EXCEPT !.phase = "CHUNK_DATA", !.remaining = 1]
      BY <3>2, ChunkSteps
    <3>4. r2 \in Responses(T) /\ r2.status = s.status /\ r2.phase = "CHUNK_DATA"
          /\ r2.remaining = 1
      BY <1>3, <3>3
    <3> HIDE DEF r2, u
    <3>5. IntoBody(s, h, i + 1, r2, b) /\ ~InBody(r)
      BY <1>1, <1>2, <3>2, <3>4 DEF IntoBody, InBody
    <3> QED BY <3>4, <3>5 DEF Fits, r2, u
  <2>4. CASE c = 1
    <3>1. i = 3 * x + 1 /\ i + 1 = 3 * x + 2
      BY <2>1, <2>4
    <3>2. /\ r.phase = "CHUNK_DATA" /\ ChunkBytes(s, i) = x /\ u = ByteUnit(x + 1)
          /\ ChunkPhase(s, i + 1) = "CHUNK_END" /\ ChunkBytes(s, i + 1) = x + 1
      BY <1>1, <1>2, <2>2, <3>1, ChunkOf
    <3>3. r2 = [r EXCEPT !.remaining = 0, !.phase = "CHUNK_END"]
      <4>1. x + 1 \in Nat /\ r.remaining = 1
        BY <1>2, <3>2
      <4>2. response_feed(r, ByteUnit(x + 1)) =
               [r EXCEPT !.remaining = 0, !.phase = "CHUNK_END"]
        BY <3>2, <4>1, ChunkSteps
      <4> QED BY <3>2, <4>2
    <3>4. r2 \in Responses(T) /\ r2.status = s.status /\ r2.phase = "CHUNK_END"
      <4> HIDE DEF r2
      <4> QED BY <1>2, <3>3 DEF Responses
    <3>5. u.kind = "byte" /\ u.n = x + 1 /\ u.n \in Nat
      BY <3>2 DEF ByteUnit
    <3>6. Append(b, u.n) = Bytes(x + 1)
      BY <1>2, <3>2, <3>5, NextByte
    <3> HIDE DEF r2, u
    <3>7. IntoBody(s, h, i + 1, r2, Append(b, u.n)) /\ InBody(r)
      BY <1>1, <3>2, <3>4, <3>6 DEF IntoBody, InBody
    <3> QED BY <3>4, <3>5, <3>7 DEF Fits, r2, u
  <2>5. CASE c = 2
    <3>1. i = 3 * x + 2 /\ i + 1 = 3 * x + 3 /\ i + 1 = 3 * (x + 1) /\ x + 1 \in Nat
      BY <2>1, <2>5
    <3>2. r.phase = "CHUNK_END" /\ ChunkBytes(s, i) = x + 1 /\ u = EolUnit
      BY <1>1, <1>2, <2>2, <3>1, ChunkOf
    <3>3. ChunkPhase(s, i + 1) = "CHUNK_SIZE" /\ ChunkBytes(s, i + 1) = x + 1
      <4>1. CASE x + 1 = n
        BY <1>1, <3>1, <4>1, LastChunk
      <4>2. CASE x + 1 # n
        <5>1. x + 1 < n
          BY <1>1, <2>2, <4>2
        <5> QED BY <1>1, <3>1, <5>1, ChunkOf
      <4> QED BY <4>1, <4>2
    <3>4. r2 = [r EXCEPT !.phase = "CHUNK_SIZE"]
      BY <3>2, ChunkSteps
    <3>5. r2 \in Responses(T) /\ r2.status = s.status /\ r2.phase = "CHUNK_SIZE"
      BY <1>4, <3>4
    <3> HIDE DEF r2, u
    <3>6. IntoBody(s, h, i + 1, r2, b) /\ ~InBody(r)
      BY <1>1, <1>2, <3>2, <3>3, <3>5 DEF IntoBody, InBody
    <3> QED BY <3>5, <3>6 DEF Fits, r2, u
  <2> QED BY <2>3, <2>4, <2>5
<1> QED BY <1>1, <1>5, <1>6, <1>7

\* Every unit of a reply takes the codec and the body one on.
LEMMA Feed ==
    ASSUME NEW s \in ReplySet, NEW h \in BOOLEAN, NEW T, s.status \in T,
           NEW p \in 0 .. Size(s, h) - 1, NEW r \in Responses(T), NEW b,
           SoFar(s, h, p, r, b), NEW u, u = Reply(s, h)[p + 1],
           NEW r2, r2 = response_feed(r, u)
    PROVE  /\ r2 \in Responses(T)
           /\ head_done(r) <=> p > Skip(s)
           /\ head_done(r2) <=> p >= Skip(s)
           /\ InBody(r) => u.kind = "byte" /\ u.n \in Nat /\ SoFar(s, h, p + 1, r2, Append(b, u.n))
           /\ ~InBody(r) => SoFar(s, h, p + 1, r2, b)
<1>1. /\ Skip(s) \in {0, 1} /\ p \in Nat /\ After(s, h) \in Nat
      /\ Size(s, h) = Skip(s) + 1 + After(s, h) /\ s.status # 0
  BY DEF Skip, ReplySet, After, Size
<1>2. CASE p < Skip(s)
  <2>1. s.interim /\ p = 0
    BY <1>1, <1>2 DEF Skip
  <2>2. u = Interim /\ r = response_init(h) /\ b = <<>>
    <3>1. 0 + 1 = 1 /\ 0 <= Skip(s)
      BY <1>1
    <3> QED BY <2>1, <3>1, ReplyIs DEF SoFar
  <2>3. r2 = response_init(h)
    BY <2>2, FeedInterim
  <2>4. p + 1 <= Skip(s) /\ ~(p > Skip(s)) /\ ~(p >= Skip(s))
    BY <1>1, <1>2
  <2> QED BY <2>2, <2>3, <2>4, FreshResponse DEF SoFar
<1>3. CASE p = Skip(s)
  <2>1. p <= Skip(s) /\ ~(p > Skip(s)) /\ p >= Skip(s) /\ ~(p + 1 <= Skip(s))
        /\ (p + 1) - Skip(s) - 1 = 0
    BY <1>1, <1>3
  <2>2. u = Said(s) /\ r = response_init(h) /\ b = <<>>
    BY <1>3, <2>1, ReplyIs DEF SoFar
  <2>3. r2 \in Responses(T) /\ IntoBody(s, h, 0, r2, <<>>) /\ head_done(r2)
    BY <2>2, FeedHead
  <2>4. SoFar(s, h, p + 1, r2, b)
    BY <2>1, <2>2, <2>3 DEF SoFar
  <2> QED BY <2>1, <2>2, <2>3, <2>4, FreshResponse
<1>4. CASE p > Skip(s)
  <2>1. PICK i \in Nat : i = p - Skip(s) - 1
    BY <1>1, <1>4
  <2>2. /\ i \in 0 .. After(s, h) - 1 /\ ~(p <= Skip(s)) /\ ~(p + 1 <= Skip(s))
        /\ (p + 1) - Skip(s) - 1 = i + 1 /\ p + 1 = Skip(s) + 1 + (i + 1)
        /\ i + 1 \in 1 .. After(s, h) /\ p >= Skip(s)
    BY <1>1, <1>4, <2>1
  <2>3. IntoBody(s, h, i, r, b) /\ u = BodyUnit(s, i + 1)
    BY <2>1, <2>2, ReplyIs DEF SoFar
  <2>4. Fits(s, h, i + 1, r, b, BodyUnit(s, i + 1), T)
    BY <2>2, <2>3, FeedLength, FeedChunk
  <2>5. /\ r2 \in Responses(T) /\ r2.status = s.status
        /\ InBody(r) => u.kind = "byte" /\ u.n \in Nat /\ IntoBody(s, h, i + 1, r2, Append(b, u.n))
        /\ ~InBody(r) => IntoBody(s, h, i + 1, r2, b)
    BY <2>3, <2>4 DEF Fits
  <2>6. r.status = s.status
    BY <2>3 DEF IntoBody
  <2> QED BY <1>1, <1>4, <2>2, <2>5, <2>6 DEF SoFar, head_done
<1> QED BY <1>1, <1>2, <1>3, <1>4

\* A reply that has been read to its end has brought the body that was meant.
LEMMA Whole ==
    ASSUME NEW s \in ReplySet, NEW h \in BOOLEAN, NEW p \in 0 .. Size(s, h), NEW r, NEW b,
           SoFar(s, h, p, r, b)
    PROVE  /\ r.phase = "DONE" => b = Meant(s, h)
           /\ r.phase = "UNTIL_CLOSE" =>
                 /\ r.framing = "UNTIL_CLOSE" /\ s.coding = "close"
                 /\ p = Size(s, h) => b = Meant(s, h)
           /\ b \in Seq(Nat)
<1>1. /\ Skip(s) \in {0, 1} /\ p \in Nat /\ After(s, h) \in Nat /\ s.length \in Nat
      /\ Size(s, h) = Skip(s) + 1 + After(s, h) /\ s.status # 0
      /\ s.coding \in {"length", "chunked", "both", "close"}
  BY DEF Skip, ReplySet, After, Size
<1>2. Meant(s, h) = IF Bodiless(s, h) THEN <<>> ELSE Bytes(s.length)
  BY DEF Meant, Bodiless, Bytes
<1>3. CASE p <= Skip(s)
  BY <1>3 DEF SoFar, response_init
<1>4. CASE ~(p <= Skip(s))
  <2>1. PICK i \in Nat : i = p - Skip(s) - 1
    BY <1>1, <1>4
  <2>2. IntoBody(s, h, i, r, b) /\ i <= After(s, h) /\ (p = Size(s, h) => i = After(s, h))
    BY <1>1, <1>4, <2>1 DEF SoFar
  <2>3. CASE Bodiless(s, h)
    BY <1>2, <2>2, <2>3 DEF IntoBody
  <2>4. CASE ~Bodiless(s, h) /\ Chunked(s)
    <3>1. r.phase = ChunkPhase(s, i) /\ b = Bytes(ChunkBytes(s, i))
      BY <2>2, <2>4 DEF IntoBody
    <3>2. r.phase # "UNTIL_CLOSE" /\ (r.phase = "DONE" => i = 3 * s.length + 2)
      BY <3>1 DEF ChunkPhase
    <3>3. ChunkBytes(s, i) \in Nat
      BY <1>1 DEF ChunkBytes
    <3>4. i = 3 * s.length + 2 => ChunkBytes(s, i) = s.length
      BY <1>1 DEF ChunkBytes
    <3> QED BY <1>2, <2>4, <3>1, <3>2, <3>3, <3>4, NextByte
  <2>5. CASE ~Bodiless(s, h) /\ ~Chunked(s) /\ s.coding = "length"
    BY <1>1, <1>2, <2>2, <2>5, NextByte DEF IntoBody
  <2>6. CASE ~Bodiless(s, h) /\ ~Chunked(s) /\ s.coding = "close"
    BY <1>1, <1>2, <2>2, <2>6, NextByte DEF IntoBody, After
  <2> QED BY <1>1, <2>3, <2>4, <2>5, <2>6 DEF Chunked
<1> QED BY <1>3, <1>4

-----------------------------------------------------------------------------
(* What the steps have in common. *)

JobSet ==
    [method : {"GET", "HEAD", "POST"}, ranged : BOOLEAN, file : BOOLEAN,
     cap : Nat, idle : BOOLEAN, upload : Nat]

LEMMA Constants ==
    /\ MaxAddresses \in Nat \ {0} /\ MaxRedirects \in Nat /\ ReadsPerTurn \in Nat \ {0}
    /\ Idle \in Nat \ {0} /\ Requests \subseteq Nat \ {0}
    /\ Replies \subseteq ReplySet /\ Jobs \cup {NoJob} \subseteq JobSet
<1>1. NoJob \in JobSet
  BY DEF NoJob, JobSet
<1> QED BY <1>1, FetchRequestsAssumption, JobsAssumption, RepliesAssumption, LimitsAssumption,
           IdleAssumption DEF ReplySet, JobSet

LEMMA NoConnIs ==
    /\ NoConn \in Conns /\ NoConn.id = 0 /\ NoConn.job = NoJob /\ NoConn.phase = "RESOLVING"
    /\ NoConn.socket = FALSE /\ NoConn.out_fd = FALSE /\ NoConn.body = <<>>
    /\ NoConn.unsent = 0 /\ NoJob.method = "GET" /\ NoJob.cap = 0 /\ NoJob.upload = 0
<1>1. response_init(FALSE) \in Responses(Statuses)
  BY FreshResponse
<1>2. NoConn \in Conns
  <2>1. /\ <<>> \in Seq(Nat) /\ 0 \in 0 .. MaxRedirects /\ 0 \in 0 .. MaxAddresses /\ 0 \in Nat
        /\ 0 \in Requests \cup {0} /\ NoJob \in Jobs \cup {NoJob}
    BY Constants
  <2> HIDE DEF NoJob
  <2> QED BY <1>1, <2>1 DEF NoConn, Conns
<1> QED BY <1>2 DEF NoConn, NoJob

\* Ages, and what the clock can show.
LEMMA NewClockIs ==
    /\ NewClock \in [tick : 0 .. Idle, moved : 0 .. Idle, stamp : 0 .. Idle]
    /\ NewClock.stamp = Idle /\ NewClock.moved = Idle
BY Constants DEF NewClock

\* The state and the caller's view after a request has ended, in a callback or
\* from start().
LEMMA CompleteInv ==
    ASSUME Inv, NEW c, NEW outcome \in Outcomes, fetch_complete(c, outcome),
           c.id = conn.id, conn.id # 0, c.job = conn.job,
           c.socket = conn.socket, c.out_fd = conn.out_fd,
           outcome = "OK" => c.body = Meant(server.reply, IsHead),
           ticking' = ticking \/ (ticking' = FALSE /\ ~starting)
    PROVE  Inv'
<1> USE DEF Inv
<1>1. /\ conn' = NoConn /\ lookup' = FALSE /\ wants_write' = FALSE /\ starting' = FALSE
      /\ server' = NoServer /\ clock' = NewClock /\ reads' = 0 /\ reached' = 0
      /\ held' = Closed(c.socket, c.out_fd) /\ Report(c, outcome)
  BY DEF fetch_complete, Report
<1>2. /\ conn \in Conns /\ conn.id \in Requests /\ {conn.socket, conn.out_fd} \subseteq BOOLEAN
      /\ {starting, nested, ticking} \subseteq BOOLEAN
  BY DEF TypeOK, Conns
<1>3. held' = [sockets |-> 0, files |-> 0]
  BY <1>1, <1>2 DEF Holds, Closed, Count
<1>4. CASE starting
  <2>1. /\ returned' = [returned EXCEPT ![conn.id] = "refused"] /\ pc' = Home
        /\ nested' = nested /\ calls' = calls /\ result' = result /\ ticking' = ticking
    BY <1>1, <1>4 DEF Report
  <2>2. TypeOK'
    <3>1. conn' \in Conns /\ ~(conn'.job.cap > 0)
      BY <1>1, NoConnIs
    <3>2. /\ held' \in [sockets : Nat, files : Nat]
          /\ server'.reply \in Replies \cup {NoServer.reply}
          /\ clock' \in [tick : 0 .. Idle, moved : 0 .. Idle, stamp : 0 .. Idle]
          /\ reads' \in 0 .. ReadsPerTurn /\ reached' \in Nat
      BY <1>1, <1>3, NewClockIs, Constants
    <3>5. {lookup', wants_write', starting', nested', ticking'} \subseteq BOOLEAN
      BY <1>1, <1>2, <2>1
    <3>3. /\ returned' \in [Requests -> {"unused", "refused", "accepted", "cancelled"}]
          /\ calls' \in [Requests -> Nat] /\ pc' \in {"app", "tick"}
          /\ result'.outcome \in Outcomes \cup {"none"}
      BY <1>2, <2>1 DEF TypeOK, Home
    <3> QED BY <3>1, <3>2, <3>3, <3>5 DEF TypeOK
  <2>3. Holds' /\ Places' /\ Stack'
    BY <1>1, <1>2, <1>3, <2>1, <2>2, NoConnIs DEF Holds, Places, Stack, Count, Home, TypeOK, Waits
  <2>4. Listens' /\ Once' /\ Silence'
    BY <1>1, NoConnIs, <2>1 DEF Listens, Once, Silence, Home
  <2>5. Answers'
    BY <1>1, <1>2, <1>4, <2>1, NoConnIs DEF Answers, TypeOK
  <2>6. Reads' /\ BodyWhole'
    BY <1>1, <2>1, NoConnIs DEF Reads, BodyWhole
  <2> QED BY <2>2, <2>3, <2>4, <2>5, <2>6
<1>5. CASE ~starting
  <2>1. /\ calls' = [calls EXCEPT ![conn.id] = @ + 1] /\ result' = ResultOf(c, outcome)
        /\ nested' = TRUE /\ pc' = "app" /\ returned' = returned
    BY <1>1, <1>5 DEF Report
  <2>2. TypeOK'
    <3>1. conn' \in Conns /\ ~(conn'.job.cap > 0)
      BY <1>1, NoConnIs
    <3>2. /\ held' \in [sockets : Nat, files : Nat]
          /\ server'.reply \in Replies \cup {NoServer.reply}
          /\ clock' \in [tick : 0 .. Idle, moved : 0 .. Idle, stamp : 0 .. Idle]
          /\ reads' \in 0 .. ReadsPerTurn /\ reached' \in Nat
      BY <1>1, <1>3, NewClockIs, Constants
    <3>5. {lookup', wants_write', starting', nested', ticking'} \subseteq BOOLEAN
      BY <1>1, <1>2, <2>1
    <3>3. /\ returned' \in [Requests -> {"unused", "refused", "accepted", "cancelled"}]
          /\ calls' \in [Requests -> Nat] /\ pc' = "app"
      BY <1>2, <2>1 DEF TypeOK
    <3>4. result'.outcome \in Outcomes \cup {"none"}
      BY <2>1 DEF ResultOf
    <3> QED BY <3>1, <3>2, <3>3, <3>4, <3>5 DEF TypeOK
  <2>3. Holds' /\ Places' /\ Stack'
    BY <1>1, <1>2, <1>3, <2>1, <2>2, NoConnIs DEF Holds, Places, Stack, Count, TypeOK, Waits
  <2>4. Listens' /\ Once' /\ Silence'
    BY <1>1, NoConnIs, <2>1 DEF Listens, Once, Silence
  <2>5. Answers'
    BY <1>1, <1>2, <1>5, <2>1, NoConnIs DEF Answers, TypeOK
  <2>6. Reads'
    BY <1>1, <2>1, NoConnIs DEF Reads
  <2>7. BodyWhole'
    BY <2>1 DEF BodyWhole, ResultOf, IsHead
  <2> QED BY <2>2, <2>3, <2>4, <2>5, <2>6, <2>7
<1> QED BY <1>4, <1>5

\* What has been read stays read while the reply and the session stay.
LEMMA ReadsKept ==
    ASSUME Reads, server' = server, conn'.job = conn.job, conn'.response = conn.response,
           conn'.body = conn.body, pc' = "hop" <=> pc = "hop",
           conn'.phase = conn.phase \/ (conn.phase = "SENDING" /\ conn'.phase = "RECEIVING")
    PROVE  Reads'
<1>1. CASE conn.phase \in {"SENDING", "RECEIVING"} /\ pc # "hop"
  <2>0. PICK s \in Replies : \E p \in 0 .. Size(s, IsHead) : HasReadTo(conn, s, p)
    BY <1>1 DEF Reads
  <2>1. PICK p \in 0 .. Size(s, IsHead) : HasReadTo(conn, s, p)
    BY <2>0
  <2>2. HasReadTo(conn, s, p)' /\ IsHead' = IsHead
    BY <2>1 DEF HasReadTo, IsHead
  <2> QED BY <1>1, <2>1, <2>2 DEF Reads
<1>2. CASE ~(conn.phase \in {"SENDING", "RECEIVING"} /\ pc # "hop")
  BY <1>2 DEF Reads
<1> QED BY <1>1, <1>2

-----------------------------------------------------------------------------
(* The application's steps. *)

LEMMA StartRefusedInv ==
    ASSUME Inv, NEW r \in Requests, StartRefused(r)
    PROVE  Inv'
<1> USE DEF Inv
<1>1. /\ UNCHANGED <<conn, lookup, held, wants_write, server, clock, pc, reads, starting,
                     nested, ticking, calls, result, reached>>
      /\ returned' = [returned EXCEPT ![r] = "refused"] /\ returned[r] = "unused"
      /\ pc = "app"
  BY DEF StartRefused, flow, Unused, App
<1>2. TypeOK'
  BY <1>1 DEF TypeOK
<1>3. Holds' /\ Places' /\ Stack' /\ Listens' /\ Once' /\ Silence'
  BY <1>1 DEF Holds, Places, Stack, Listens, Once, Silence
<1>4. Answers'
  BY <1>1 DEF Answers, TypeOK, Conns, Stack
<1>5. Reads' /\ BodyWhole'
  BY <1>1, ReadsKept DEF BodyWhole
<1> QED BY <1>2, <1>3, <1>4, <1>5

LEMMA StartInv ==
    ASSUME Inv, NEW r \in Requests, NEW job \in Jobs, Start(r, job)
    PROVE  Inv'
<1> USE DEF Inv
<1>1. /\ UNCHANGED <<lookup, held, wants_write, server, reads, nested, ticking,
                     returned, calls, result, reached>>
      /\ conn = NoConn /\ pc = "app" /\ returned[r] = "unused"
      /\ conn' = [NoConn EXCEPT !.id = r, !.job = job] /\ clock' = NewClock
      /\ pc' = "hop" /\ starting' = TRUE
  BY DEF Start, Unused, App, seen
<1>2. /\ conn' \in Conns /\ conn'.id = r /\ conn'.job = job /\ conn'.phase = "RESOLVING"
      /\ conn'.socket = FALSE /\ conn'.out_fd = FALSE /\ conn'.body = <<>>
      /\ conn'.unsent = 0
  <2>1. NoConn \in Conns /\ r \in Requests \cup {0} /\ job \in Jobs \cup {NoJob}
    BY NoConnIs
  <2> QED BY <1>1, <2>1, NoConnIs DEF Conns
<1>3. r # 0 /\ r \in Nat /\ job.upload \in Nat /\ job.cap \in Nat
  BY Constants DEF JobSet
<1>4. TypeOK'
  <2>1. conn'.job.cap > 0 => Len(conn'.body) <= conn'.job.cap
    BY <1>2, <1>3
  <2> QED BY <1>1, <1>2, <2>1, NewClockIs DEF TypeOK
<1>5. Holds' /\ Places' /\ Stack'
  BY <1>1, <1>2, <1>3, <1>4, NoConnIs DEF Holds, Places, Stack, Count, TypeOK, Waits
<1>6. Listens' /\ Once' /\ Silence'
  <2>1. Listens' /\ Silence'
    BY <1>1, <1>2 DEF Listens, Silence
  <2>2. Once'
    BY <1>1, <1>2, <1>3, NoConnIs DEF Once
  <2> QED BY <2>1, <2>2
<1>7. Answers'
  <2>1. ~starting /\ starting' /\ conn.id = 0 /\ \A q \in Requests : q # 0
    BY <1>1, NoConnIs, Constants DEF Stack
  <2> QED BY <1>1, <1>2, <2>1 DEF Answers
<1>8. Reads' /\ BodyWhole'
  BY <1>1, <1>2 DEF Reads, BodyWhole
<1> QED BY <1>4, <1>5, <1>6, <1>7, <1>8

\* cancel(), and the first half of shutdown().
LEMMA AbandonInv ==
    ASSUME Inv, Abandon, pc = "app", reads' \in 0 .. ReadsPerTurn,
           UNCHANGED <<starting, nested, ticking>>, pc' = "app" \/ (pc' = "down" /\ ~nested)
    PROVE  Inv'
<1> USE DEF Inv
<1>1. /\ conn' = NoConn /\ lookup' = FALSE /\ wants_write' = FALSE
      /\ server' = NoServer /\ clock' = NewClock /\ reached' = 0
      /\ held' = Closed(conn.socket, conn.out_fd)
      /\ returned' = IF conn.id = 0 THEN returned ELSE [returned EXCEPT ![conn.id] = "cancelled"]
      /\ calls' = calls /\ result' = result
  BY DEF Abandon
<1>2. /\ conn \in Conns /\ {conn.socket, conn.out_fd} \subseteq BOOLEAN
      /\ {starting, nested, ticking} \subseteq BOOLEAN /\ ~starting
      /\ conn.id \in Requests \cup {0}
  BY DEF TypeOK, Conns, Stack
<1>3. held' = [sockets |-> 0, files |-> 0]
  BY <1>1, <1>2 DEF Holds, Closed, Count
<1>4. TypeOK'
  <2>1. conn' \in Conns /\ ~(conn'.job.cap > 0)
    BY <1>1, NoConnIs
  <2>2. /\ held' \in [sockets : Nat, files : Nat]
        /\ server'.reply \in Replies \cup {NoServer.reply}
        /\ clock' \in [tick : 0 .. Idle, moved : 0 .. Idle, stamp : 0 .. Idle]
        /\ reached' \in Nat
    BY <1>1, <1>3, NewClockIs
  <2>3. {lookup', wants_write', starting', nested', ticking'} \subseteq BOOLEAN
    BY <1>1, <1>2
  <2>4. /\ returned' \in [Requests -> {"unused", "refused", "accepted", "cancelled"}]
        /\ calls' \in [Requests -> Nat] /\ pc' \in {"app", "down"}
        /\ result'.outcome \in Outcomes \cup {"none"}
    BY <1>1, <1>2 DEF TypeOK
  <2> QED BY <2>1, <2>2, <2>3, <2>4 DEF TypeOK
<1>5. Holds' /\ Places' /\ Stack'
  BY <1>1, <1>2, <1>3, <1>4, NoConnIs DEF Holds, Places, Stack, Count, TypeOK, Waits
<1>6. Listens' /\ Once' /\ Silence'
  BY <1>1, NoConnIs DEF Listens, Once, Silence
<1>7. Answers'
  <2>1. \A q \in Requests : q # 0
    BY Constants
  <2>2. CASE conn.id = 0
    BY <1>1, <1>2, <2>1, <2>2, NoConnIs DEF Answers
  <2>3. CASE conn.id # 0
    BY <1>1, <1>2, <2>1, <2>3, NoConnIs DEF Answers, TypeOK
  <2> QED BY <2>2, <2>3
<1>8. Reads' /\ BodyWhole'
  BY <1>1, NoConnIs DEF Reads, BodyWhole
<1> QED BY <1>4, <1>5, <1>6, <1>7, <1>8

LEMMA CallerInv ==
    ASSUME Inv, Caller
    PROVE  Inv'
<1>1. CASE \E r \in Requests : StartRefused(r) \/ \E job \in Jobs : Start(r, job)
  BY <1>1, StartRefusedInv, StartInv
<1>2. CASE Cancel
  <2>1. Abandon /\ pc = "app" /\ UNCHANGED <<pc, reads, starting, nested, ticking>>
    BY <1>2 DEF Cancel, App, flow
  <2>2. reads' \in 0 .. ReadsPerTurn
    BY <2>1 DEF Inv, TypeOK
  <2> QED BY <2>1, <2>2, AbandonInv
<1>3. CASE Shutdown
  <2>1. /\ Abandon /\ pc = "app" /\ pc' = "down" /\ ~nested
        /\ UNCHANGED <<reads, starting, nested, ticking>>
    BY <1>3 DEF Shutdown, InLoop
  <2>2. reads' \in 0 .. ReadsPerTurn
    BY <2>1 DEF Inv, TypeOK
  <2> QED BY <2>1, <2>2, AbandonInv
<1>4. CASE CallbackReturns
  <2> USE DEF Inv
  <2>1. /\ UNCHANGED <<conn, lookup, held, wants_write, server, clock, reads, starting, ticking,
                       returned, calls, reached>>
        /\ pc = "app" /\ nested /\ nested' = FALSE /\ result' = NoResult
        /\ pc' = IF ticking THEN "tick" ELSE "app"
    BY <1>4 DEF CallbackReturns, App
  <2>2. TypeOK'
    <3>1. pc' \in {"app", "tick"} /\ nested' \in BOOLEAN /\ result'.outcome = "none"
      BY <2>1 DEF NoResult
    <3> QED BY <2>1, <3>1 DEF TypeOK
  <2>3. Holds' /\ Places' /\ Stack' /\ Listens' /\ Once' /\ Silence'
    BY <2>1, <2>2 DEF Holds, Places, Stack, Listens, Once, Silence, Waits, TypeOK
  <2>4. Answers'
    BY <2>1 DEF Answers
  <2>5. Reads' /\ BodyWhole'
    <3>1. Reads'
      BY <2>1, ReadsKept
    <3>2. BodyWhole'
      BY <2>1 DEF BodyWhole, NoResult
    <3> QED BY <3>1, <3>2
  <2> QED BY <2>2, <2>3, <2>4, <2>5
<1> QED BY <1>1, <1>2, <1>3, <1>4 DEF Caller

-----------------------------------------------------------------------------
(* The steps of a hop. *)

\* A handler that returns leaves the caller's view and the stack in order.
LEMMA LeaveInv ==
    ASSUME TypeOK, Answers, Stack, Leave, conn'.id = conn.id, conn.id # 0, ticking' = ticking
    PROVE  /\ Answers' /\ Stack' /\ pc' \in {"app", "tick"} /\ starting' = FALSE
           /\ returned' \in [Requests -> {"unused", "refused", "accepted", "cancelled"}]
           /\ UNCHANGED <<nested, calls, result>>
<1>1. /\ pc' = Home /\ starting' = FALSE /\ UNCHANGED <<nested, calls, result>>
      /\ returned' = IF starting THEN [returned EXCEPT ![conn.id] = "accepted"] ELSE returned
  BY DEF Leave
<1>2. conn.id \in Requests /\ {starting, nested, ticking} \subseteq BOOLEAN
  BY DEF TypeOK, Conns
<1>3. pc' \in {"app", "tick"}
  BY <1>1 DEF Home
<1>4. returned' \in [Requests -> {"unused", "refused", "accepted", "cancelled"}]
  BY <1>1, <1>2 DEF TypeOK
<1>5. Stack'
  BY <1>1, <1>2 DEF Stack, Home
<1>6. Answers'
  <2>1. CASE starting
    BY <1>1, <1>2, <2>1 DEF Answers, TypeOK
  <2>2. CASE ~starting
    BY <1>1, <1>2, <2>2 DEF Answers
  <2> QED BY <1>2, <2>1, <2>2
<1> QED BY <1>1, <1>3, <1>4, <1>5, <1>6

LEMMA HoppingIs ==
    ASSUME TypeOK
    PROVE  /\ Hopping \in Conns /\ Hopping.phase = "RESOLVING"
           /\ Hopping.id = conn.id /\ Hopping.job = conn.job /\ Hopping.socket = conn.socket
           /\ Hopping.out_fd = conn.out_fd /\ Hopping.body = conn.body
           /\ Hopping.unsent = conn.unsent
<1>1. IsHead \in BOOLEAN /\ conn \in Conns
  BY DEF IsHead, TypeOK, Conns
<1>2. PICK r \in Responses(Statuses) : r = response_init(IsHead)
  BY <1>1, FreshResponse
<1>3. 0 \in 0 .. MaxAddresses
  BY Constants
<1> QED BY <1>1, <1>2, <1>3 DEF Hopping, Conns

\* What a connection has in common with conn when only its hop goes on.
Alike(c) ==
    /\ c.id = conn.id /\ c.job = conn.job /\ c.body = conn.body /\ c.unsent = conn.unsent

LEMMA HopToAddressesInv ==
    ASSUME Inv, NEW n \in 1 .. MaxAddresses, HopToAddresses(n)
    PROVE  Inv'
<1> USE DEF Inv
<1>1. /\ UNCHANGED <<lookup, held, wants_write, server, clock, reads, ticking, reached,
                     starting, nested, returned, calls, result>>
      /\ pc = "hop" /\ pc' = "try" /\ conn' = [Hopping EXCEPT !.addresses = n]
  BY DEF HopToAddresses, GoTo
<1>2. /\ conn' \in Conns /\ Alike(conn') /\ conn'.phase = "RESOLVING"
      /\ conn'.socket = conn.socket /\ conn'.out_fd = conn.out_fd
  <2>1. n \in 0 .. MaxAddresses
    BY Constants
  <2> QED BY <1>1, <2>1, HoppingIs DEF Conns, Alike
<1>3. conn.id # 0 /\ ~lookup /\ conn.socket = FALSE /\ conn.out_fd = FALSE /\ conn.body = <<>>
  BY <1>1 DEF Places, Reads, TypeOK
<1>4. TypeOK'
  BY <1>1, <1>2 DEF TypeOK, Alike
<1>5. Holds' /\ Places'
  BY <1>1, <1>2, <1>3 DEF Holds, Places, Waits, Alike
<1>6. Stack' /\ Listens' /\ Silence' /\ Answers'
  BY <1>1, <1>2 DEF Stack, Listens, Silence, Answers, Alike, Waits
<1>7. Once'
  BY <1>1, <1>2 DEF Once, Alike
<1>8. Reads' /\ BodyWhole'
  BY <1>1, <1>2, <1>3 DEF Reads, BodyWhole, Alike
<1> QED BY <1>4, <1>5, <1>6, <1>7, <1>8

LEMMA HopToNameInv ==
    ASSUME Inv, HopToName
    PROVE  Inv'
<1> USE DEF Inv
<1>1. /\ UNCHANGED <<held, wants_write, server, clock, reads, ticking, reached>>
      /\ pc = "hop" /\ conn' = Hopping /\ lookup' = TRUE /\ Leave
  BY DEF HopToName
<1>2. /\ conn' \in Conns /\ Alike(conn') /\ conn'.phase = "RESOLVING"
      /\ conn'.socket = conn.socket /\ conn'.out_fd = conn.out_fd
  BY <1>1, HoppingIs DEF Alike
<1>3. conn.id # 0 /\ conn.socket = FALSE /\ conn.out_fd = FALSE /\ conn.body = <<>>
  BY <1>1 DEF Places, Reads, TypeOK
<1>4. /\ Answers' /\ Stack' /\ pc' \in {"app", "tick"} /\ starting' = FALSE
      /\ returned' \in [Requests -> {"unused", "refused", "accepted", "cancelled"}]
      /\ UNCHANGED <<nested, calls, result>>
  BY <1>1, <1>2, <1>3, LeaveInv DEF Alike
<1>5. TypeOK'
  BY <1>1, <1>2, <1>4 DEF TypeOK, Alike
<1>6. Holds' /\ Places'
  BY <1>1, <1>2, <1>3, <1>4 DEF Holds, Places, Waits, Alike
<1>7. Listens' /\ Silence' /\ Once'
  BY <1>1, <1>2, <1>4 DEF Listens, Silence, Once, Alike
<1>8. Reads' /\ BodyWhole'
  BY <1>2, <1>3, <1>4 DEF Reads, BodyWhole, Alike
<1> QED BY <1>4, <1>5, <1>6, <1>7, <1>8

LEMMA ResolvedInv ==
    ASSUME Inv, NEW n \in 0 .. MaxAddresses, Resolved(n)
    PROVE  Inv'
<1> USE DEF Inv
<1>1. /\ (pc = "app" /\ ~nested) \/ pc = "resolve_tick"
      /\ lookup /\ conn.id # 0 /\ conn.phase = "RESOLVING"
  BY DEF Resolved, InLoop
<1>2. CASE n = 0
  BY <1>1, <1>2, CompleteInv DEF Resolved, Outcomes
<1>3. CASE n # 0
  <2>1. /\ UNCHANGED <<held, wants_write, server, clock, reads, ticking, reached,
                       starting, nested, returned, calls, result>>
        /\ pc' = "try" /\ conn' = [conn EXCEPT !.addresses = n] /\ lookup' = FALSE
    BY <1>3 DEF Resolved, GoTo
  <2>2. /\ conn' \in Conns /\ Alike(conn') /\ conn'.phase = "RESOLVING"
        /\ conn'.socket = conn.socket /\ conn'.out_fd = conn.out_fd
    BY <1>1, <2>1 DEF TypeOK, Conns, Alike
  <2>3. conn.socket = FALSE /\ conn.out_fd = FALSE /\ conn.body = <<>>
    BY <1>1 DEF Places, Reads, TypeOK, Holds
  <2>4. TypeOK'
    BY <2>1, <2>2 DEF TypeOK, Conns, Alike
  <2>5. Holds' /\ Places'
    BY <1>1, <2>1, <2>2, <2>3 DEF Holds, Places, Waits, Alike
  <2>6. Stack' /\ Listens' /\ Silence' /\ Answers'
    BY <1>1, <2>1, <2>2 DEF Stack, Listens, Silence, Answers, Alike, Waits
  <2>7. Once'
    BY <1>1, <2>1, <2>2 DEF Once, Alike
  <2>8. Reads' /\ BodyWhole'
    BY <2>1, <2>2, <2>3 DEF Reads, BodyWhole, Alike
  <2> QED BY <2>4, <2>5, <2>6, <2>7, <2>8
<1> QED BY <1>2, <1>3

LEMMA TryFailsInv ==
    ASSUME Inv, TryFails
    PROVE  Inv'
<1> USE DEF Inv
<1>1. /\ UNCHANGED <<lookup, held, wants_write, server, clock, pc, reads, ticking, reached,
                     starting, nested, returned, calls, result>>
      /\ pc = "try" /\ conn.addresses > 0
      /\ conn' = [conn EXCEPT !.addresses = @ - 1, !.detail = TRUE]
  BY DEF TryFails, flow, seen
<1>2. /\ conn' \in Conns /\ Alike(conn') /\ conn'.phase = conn.phase
      /\ conn'.socket = conn.socket /\ conn'.out_fd = conn.out_fd
  <2>1. conn.addresses \in 0 .. MaxAddresses /\ conn \in Conns
    BY DEF TypeOK, Conns
  <2>2. conn.addresses - 1 \in 0 .. MaxAddresses
    BY <1>1, <2>1, Constants
  <2> QED BY <1>1, <2>1, <2>2 DEF Conns, Alike
<1>3. /\ conn.id # 0 /\ ~lookup /\ conn.socket = FALSE /\ conn.out_fd = FALSE
      /\ conn.phase \in {"RESOLVING", "CONNECTING"} /\ conn.body = <<>>
  BY <1>1 DEF Places, Reads, TypeOK
<1>4. TypeOK'
  BY <1>1, <1>2 DEF TypeOK, Alike
<1>5. Holds' /\ Places'
  BY <1>1, <1>2, <1>3 DEF Holds, Places, Waits, Alike
<1>6. Stack' /\ Listens' /\ Silence' /\ Answers'
  BY <1>1, <1>2, <1>3 DEF Stack, Listens, Silence, Answers, Alike, Waits
<1>7. Once'
  BY <1>1, <1>2, <1>3 DEF Once, Alike
<1>8. Reads' /\ BodyWhole'
  BY <1>1, <1>2, <1>3 DEF Reads, BodyWhole, Alike
<1> QED BY <1>4, <1>5, <1>6, <1>7, <1>8

LEMMA TryOpensInv ==
    ASSUME Inv, TryOpens
    PROVE  Inv'
<1> USE DEF Inv
<1>1. /\ UNCHANGED <<lookup, wants_write, server, clock, reads, ticking, reached>>
      /\ pc = "try" /\ conn.addresses > 0 /\ Leave
      /\ conn' = [conn EXCEPT !.addresses = @ - 1, !.socket = TRUE, !.armed = "BOTH",
                              !.phase = "CONNECTING"]
      /\ held' = [held EXCEPT !.sockets = @ + 1]
  BY DEF TryOpens
<1>2. /\ conn' \in Conns /\ Alike(conn') /\ conn'.phase = "CONNECTING"
      /\ conn'.socket = TRUE /\ conn'.out_fd = conn.out_fd
  <2>1. conn.addresses \in 0 .. MaxAddresses /\ conn \in Conns
    BY DEF TypeOK, Conns
  <2>2. conn.addresses - 1 \in 0 .. MaxAddresses
    BY <1>1, <2>1, Constants
  <2> QED BY <1>1, <2>1, <2>2 DEF Conns, Alike
<1>3. /\ conn.id # 0 /\ ~lookup /\ conn.socket = FALSE /\ conn.out_fd = FALSE
      /\ conn.phase \in {"RESOLVING", "CONNECTING"} /\ conn.body = <<>>
  BY <1>1 DEF Places, Reads, TypeOK
<1>4. held' = [sockets |-> 1, files |-> 0]
  BY <1>1, <1>3 DEF Holds, Count
<1>5. /\ Answers' /\ Stack' /\ pc' \in {"app", "tick"} /\ starting' = FALSE
      /\ returned' \in [Requests -> {"unused", "refused", "accepted", "cancelled"}]
      /\ UNCHANGED <<nested, calls, result>>
  BY <1>1, <1>2, <1>3, LeaveInv DEF Alike
<1>6. TypeOK'
  <2>1. held' \in [sockets : Nat, files : Nat]
    BY <1>4
  <2>2. conn'.job.cap > 0 => Len(conn'.body) <= conn'.job.cap
    BY <1>2 DEF TypeOK, Alike
  <2>3. UNCHANGED <<lookup, wants_write, nested, ticking>> /\ starting' \in BOOLEAN
    BY <1>1, <1>5
  <2> QED BY <1>1, <1>2, <1>5, <2>1, <2>2, <2>3 DEF TypeOK
<1>7. Holds' /\ Places'
  BY <1>1, <1>2, <1>3, <1>4, <1>5 DEF Holds, Places, Waits, Alike, Count
<1>8. Listens' /\ Silence' /\ Once'
  BY <1>1, <1>2, <1>3, <1>5 DEF Listens, Silence, Once, Alike
<1>9. Reads' /\ BodyWhole'
  BY <1>2, <1>3, <1>5 DEF Reads, BodyWhole, Alike
<1> QED BY <1>5, <1>6, <1>7, <1>8, <1>9

LEMMA TryAnotherInv ==
    ASSUME Inv, TryAnother, conn.id # 0, conn.phase = "CONNECTING", pc \in {"app", "tick"},
           ~nested, ticking' = ticking \/ ticking' = FALSE
    PROVE  Inv'
<1> USE DEF Inv
<1>1. /\ UNCHANGED <<lookup, wants_write, server, clock, reads, reached, starting, nested,
                     returned, calls, result>>
      /\ pc' = "try" /\ conn' = [Dropped(conn) EXCEPT !.detail = TRUE]
      /\ held' = Closed(conn.socket, FALSE)
  BY DEF TryAnother, GoTo
<1>2. /\ conn' \in Conns /\ Alike(conn') /\ conn'.phase = "CONNECTING"
      /\ conn'.socket = FALSE /\ conn'.out_fd = conn.out_fd
  <2>1. conn \in Conns
    BY DEF TypeOK, Conns
  <2> QED BY <1>1, <2>1 DEF Dropped, Conns, Alike
<1>3. /\ ~lookup /\ conn.out_fd = FALSE /\ conn.body = <<>> /\ ~starting
      /\ {conn.socket, starting, nested, ticking} \subseteq BOOLEAN
  BY DEF Places, Reads, TypeOK, Holds, Stack, Conns
<1>4. held' = [sockets |-> 0, files |-> 0]
  BY <1>1, <1>3 DEF Holds, Closed, Count
<1>5. TypeOK'
  <2>1. ticking' \in BOOLEAN
    BY <1>3
  <2>2. held' \in [sockets : Nat, files : Nat]
    BY <1>4
  <2>3. conn'.job.cap > 0 => Len(conn'.body) <= conn'.job.cap
    BY <1>2 DEF TypeOK, Alike
  <2> QED BY <1>1, <1>2, <2>1, <2>2, <2>3 DEF TypeOK
<1>6. Holds' /\ Places'
  BY <1>1, <1>2, <1>3, <1>4 DEF Holds, Places, Waits, Alike, Count
<1>7. Stack' /\ Listens' /\ Silence' /\ Answers'
  BY <1>1, <1>2, <1>3, <1>5 DEF Stack, Listens, Silence, Answers, Alike, Waits, TypeOK
<1>8. Once'
  BY <1>1, <1>2, <1>3 DEF Once, Alike
<1>9. Reads' /\ BodyWhole'
  BY <1>1, <1>2, <1>3 DEF Reads, BodyWhole, Alike
<1> QED BY <1>5, <1>6, <1>7, <1>8, <1>9

LEMMA ConnectedInv ==
    ASSUME Inv, Connected
    PROVE  Inv'
<1> USE DEF Inv
<1>1. /\ pc = "app" /\ ~nested /\ conn.socket /\ conn.phase = "CONNECTING" /\ conn.id # 0
  BY NoConnIs DEF Connected, InLoop, Holds
<1>2. CASE fetch_complete(conn, "TLS") /\ UNCHANGED ticking
  BY <1>1, <1>2, CompleteInv DEF Outcomes
<1>3. CASE ~(fetch_complete(conn, "TLS") /\ UNCHANGED ticking)
  <2>1. /\ UNCHANGED <<lookup, held, wants_write, server, clock, reads, ticking, reached,
                       starting, nested, returned, calls, result>>
        /\ pc' = "handshake" /\ conn' = [conn EXCEPT !.phase = "HANDSHAKE", !.addresses = 0]
    BY <1>3 DEF Connected, GoTo
  <2>2. /\ conn' \in Conns /\ Alike(conn') /\ conn'.phase = "HANDSHAKE"
        /\ conn'.socket = conn.socket /\ conn'.out_fd = conn.out_fd
    <3>1. conn \in Conns /\ 0 \in 0 .. MaxAddresses
      BY Constants DEF TypeOK, Conns
    <3> QED BY <2>1, <3>1 DEF Conns, Alike
  <2>3. ~lookup /\ conn.out_fd = FALSE /\ conn.body = <<>> /\ ~ticking /\ ~starting
    BY <1>1 DEF Places, Reads, TypeOK, Holds, Stack
  <2>4. TypeOK'
    BY <2>1, <2>2 DEF TypeOK, Conns, Alike
  <2>5. Holds' /\ Places'
    BY <1>1, <2>1, <2>2, <2>3 DEF Holds, Places, Waits, Alike
  <2>6. Stack' /\ Listens' /\ Silence' /\ Answers'
    BY <1>1, <2>1, <2>2, <2>3 DEF Stack, Listens, Silence, Answers, Alike, Waits
  <2>7. Once'
    BY <1>1, <2>1, <2>2 DEF Once, Alike
  <2>8. Reads' /\ BodyWhole'
    BY <2>1, <2>2, <2>3 DEF Reads, BodyWhole, Alike
  <2> QED BY <2>4, <2>5, <2>6, <2>7, <2>8
<1> QED BY <1>2, <1>3

LEMMA HopInv ==
    ASSUME Inv, Hop
    PROVE  Inv'
<1> USE DEF Inv
<1>1. CASE \E n \in 1 .. MaxAddresses : HopToAddresses(n)
  BY <1>1, HopToAddressesInv
<1>2. CASE HopToName
  BY <1>2, HopToNameInv
<1>3. CASE HopFails
  BY <1>3, HoppingIs, CompleteInv DEF HopFails, Places, Outcomes
<1>4. CASE \E n \in 0 .. MaxAddresses : Resolved(n)
  BY <1>4, ResolvedInv
<1>5. CASE TryFails \/ TryOpens
  BY <1>5, TryFailsInv, TryOpensInv
<1>6. CASE TryEnds
  BY <1>6, CompleteInv DEF TryEnds, Places, Outcomes
<1>7. CASE ConnectRefused
  <2>1. conn.id # 0
    BY <1>7, NoConnIs DEF ConnectRefused, Holds
  <2> QED BY <1>7, <2>1, TryAnotherInv DEF ConnectRefused, InLoop
<1>8. CASE Connected
  BY <1>8, ConnectedInv
<1> QED BY <1>1, <1>2, <1>3, <1>4, <1>5, <1>6, <1>7, <1>8 DEF Hop

-----------------------------------------------------------------------------
(* The session's steps. *)

\* On a session, and what the codec has of it.
LEMMA OnSession ==
    ASSUME Inv, pc \in {"handshake", "send", "receive"}
    PROVE  /\ conn \in Conns /\ conn.id # 0 /\ conn.socket = TRUE /\ ~lookup /\ ~starting /\ ~nested
           /\ ~ticking /\ conn.job \in JobSet
           /\ {conn.socket, conn.out_fd, starting, nested, ticking, lookup} \subseteq BOOLEAN
<1>1. conn \in Conns /\ {starting, nested, ticking, lookup} \subseteq BOOLEAN
  BY DEF Inv, TypeOK, Conns
<1>2. {conn.socket, conn.out_fd} \subseteq BOOLEAN /\ conn.job \in JobSet
  BY <1>1, Constants DEF Conns
<1>3. conn.id # 0 /\ conn.socket = TRUE
  BY <1>2 DEF Inv, Places
<1>4. ~starting /\ ~nested /\ ~ticking
  BY DEF Inv, Stack
<1>5. ~lookup
  BY DEF Inv, Holds, Places
<1> QED BY <1>1, <1>2, <1>3, <1>4, <1>5

LEMMA OnFdInv ==
    ASSUME Inv, OnFd
    PROVE  Inv'
<1> USE DEF Inv
<1>1. /\ UNCHANGED <<lookup, held, wants_write, server, clock, ticking, reached,
                     starting, nested, returned, calls, result>>
      /\ pc = "app" /\ ~nested /\ conn.socket /\ conn.phase # "CONNECTING" /\ reads' = 0
      /\ conn' = [conn EXCEPT !.more_to_read = @ /\ conn.phase # "RECEIVING"]
      /\ pc' = [HANDSHAKE |-> "handshake", SENDING |-> "send", RECEIVING |-> "receive"][conn.phase]
  BY DEF OnFd, GoTo, InLoop
<1>2. /\ conn.id # 0 /\ ~lookup /\ ~ticking /\ ~starting
      /\ conn.phase \in {"HANDSHAKE", "SENDING", "RECEIVING"}
  BY <1>1, NoConnIs DEF Holds, Places, Stack, TypeOK, Conns
<1>3. /\ conn' \in Conns /\ Alike(conn') /\ conn'.phase = conn.phase
      /\ conn'.socket = conn.socket /\ conn'.out_fd = conn.out_fd
      /\ conn'.response = conn.response /\ conn'.progressed = conn.progressed
  <2>1. conn \in Conns /\ (conn.more_to_read /\ conn.phase # "RECEIVING") \in BOOLEAN
    BY DEF TypeOK, Conns
  <2> QED BY <1>1, <2>1 DEF Conns, Alike
<1>4. /\ conn.phase = "HANDSHAKE" => pc' = "handshake"
      /\ conn.phase = "SENDING" => pc' = "send"
      /\ conn.phase = "RECEIVING" => pc' = "receive"
  BY <1>1
<1>5. TypeOK'
  <2>1. reads' \in 0 .. ReadsPerTurn
    BY <1>1, Constants
  <2>2. pc' \in {"handshake", "send", "receive"}
    BY <1>2, <1>4
  <2> QED BY <1>1, <1>3, <2>1, <2>2 DEF TypeOK, Alike
<1>6. Holds' /\ Places'
  BY <1>1, <1>2, <1>3, <1>4 DEF Holds, Places, Waits, Alike
<1>7. Stack' /\ Answers'
  BY <1>1, <1>2, <1>3, <1>4 DEF Stack, Answers, Alike
<1>8. Listens' /\ Silence' /\ Once'
  BY <1>1, <1>2, <1>3, <1>4 DEF Listens, Silence, Once, Alike, Waits
<1>9. Reads'
  BY <1>1, <1>2, <1>3, <1>4, ReadsKept DEF Alike
<1>10. BodyWhole'
  BY <1>1 DEF BodyWhole
<1> QED BY <1>5, <1>6, <1>7, <1>8, <1>9, <1>10

LEMMA WouldBlockInv ==
    ASSUME Inv, NEW write \in BOOLEAN, NEW more \in BOOLEAN, WouldBlock(write, more)
    PROVE  Inv'
<1> USE DEF Inv
<1>1. /\ UNCHANGED <<lookup, held, server, clock, ticking, reached>> /\ Leave
      /\ pc \in {"handshake", "send", "receive"} /\ reads' = 0 /\ wants_write' = write
      /\ \E armed \in fetch_arm(write) :
            conn' = [conn EXCEPT !.armed = armed, !.more_to_read = more]
  BY DEF WouldBlock, Working
<1>2. /\ conn' \in Conns /\ Alike(conn') /\ conn'.phase = conn.phase
      /\ conn'.socket = conn.socket /\ conn'.out_fd = conn.out_fd
      /\ conn'.response = conn.response /\ conn'.progressed = conn.progressed
      /\ conn'.armed \in {IF write THEN "OUT" ELSE "IN", "refused"}
  <2>1. PICK armed \in fetch_arm(write) :
            conn' = [conn EXCEPT !.armed = armed, !.more_to_read = more]
    BY <1>1
  <2>2. conn \in Conns /\ armed \in {"OUT", "IN", "refused"}
        /\ armed \in {IF write THEN "OUT" ELSE "IN", "refused"}
    BY DEF TypeOK, Conns, fetch_arm
  <2> QED BY <2>1, <2>2 DEF Conns, Alike
<1>3. conn.id # 0 /\ conn.socket = TRUE /\ conn.phase \in {"HANDSHAKE", "SENDING", "RECEIVING"}
  BY <1>1, OnSession DEF Places
<1>4. /\ Answers' /\ Stack' /\ pc' \in {"app", "tick"} /\ starting' = FALSE
      /\ returned' \in [Requests -> {"unused", "refused", "accepted", "cancelled"}]
      /\ UNCHANGED <<nested, calls, result>>
  BY <1>1, <1>2, <1>3, LeaveInv DEF Alike
<1>5. TypeOK'
  <2>1. conn'.job.cap > 0 => Len(conn'.body) <= conn'.job.cap
    BY <1>2 DEF TypeOK, Alike
  <2>2. {lookup', wants_write', nested', ticking', starting'} \subseteq BOOLEAN
    BY <1>1, <1>4 DEF TypeOK
  <2>3. reads' \in 0 .. ReadsPerTurn
    BY <1>1, Constants
  <2> QED BY <1>1, <1>2, <1>4, <2>1, <2>2, <2>3 DEF TypeOK
<1>6. Holds' /\ Places'
  BY <1>1, <1>2, <1>3, <1>4 DEF Holds, Places, Waits, Alike
<1>7. Listens' /\ Silence' /\ Once'
  BY <1>1, <1>2, <1>3, <1>4 DEF Listens, Silence, Once, Alike, Waits
<1>8. Reads'
  BY <1>1, <1>2, <1>4, ReadsKept DEF Alike
<1>9. BodyWhole'
  BY <1>4 DEF BodyWhole
<1> QED BY <1>4, <1>5, <1>6, <1>7, <1>8, <1>9

LEMMA HandshakenInv ==
    ASSUME Inv, NEW reply \in Replies, Handshaken(reply)
    PROVE  Inv'
<1> USE DEF Inv
<1>1. /\ UNCHANGED <<lookup, held, reads, ticking, reached, starting, nested, returned, calls,
                     result>>
      /\ pc = "handshake" /\ pc' = "send" /\ wants_write' = FALSE
      /\ conn' = [conn EXCEPT !.phase = "SENDING", !.unsent = 1 + conn.job.upload,
                              !.response = response_init(IsHead), !.progressed = TRUE]
      /\ clock' = [clock EXCEPT !.stamp = clock.tick, !.moved = 0]
      /\ server' = [reply |-> reply, left |-> Reply(reply, IsHead)]
  BY DEF Handshaken, GoTo
<1>2. IsHead \in BOOLEAN /\ response_init(IsHead) \in Responses(Statuses)
  BY FreshResponse DEF IsHead
<1>3. /\ conn \in Conns /\ conn.id # 0 /\ conn.socket = TRUE /\ ~lookup /\ ~starting /\ ~nested
      /\ ~ticking /\ conn.job \in JobSet /\ conn.phase = "HANDSHAKE" /\ conn.body = <<>>
      /\ conn.out_fd = FALSE
  BY <1>1, OnSession DEF Places, Reads, Holds
<1>4. /\ conn' \in Conns /\ conn'.phase = "SENDING" /\ conn'.socket = conn.socket
      /\ conn'.out_fd = conn.out_fd /\ conn'.id = conn.id /\ conn'.job = conn.job
      /\ conn'.body = conn.body /\ conn'.unsent = 1 + conn.job.upload
      /\ conn'.response = response_init(IsHead) /\ conn'.progressed = TRUE
  <2>1. 1 + conn.job.upload \in Nat
    BY <1>3 DEF JobSet
  <2> QED BY <1>1, <1>2, <1>3, <2>1 DEF Conns
<1>5. TypeOK'
  <2>1. /\ clock' \in [tick : 0 .. Idle, moved : 0 .. Idle, stamp : 0 .. Idle]
        /\ server'.reply \in Replies
    <3>1. clock \in [tick : 0 .. Idle, moved : 0 .. Idle, stamp : 0 .. Idle] /\ 0 \in 0 .. Idle
      BY Constants DEF TypeOK
    <3> QED BY <1>1, <3>1
  <2>2. conn'.job.cap > 0 => Len(conn'.body) <= conn'.job.cap
    BY <1>4 DEF TypeOK
  <2> QED BY <1>1, <1>4, <2>1, <2>2 DEF TypeOK
<1>6. Holds' /\ Places' /\ Stack' /\ Answers'
  BY <1>1, <1>3, <1>4 DEF Holds, Places, Stack, Answers, Waits
<1>7. Listens' /\ Silence'
  BY <1>1, <1>4 DEF Listens, Silence, Waits
<1>8. Once'
  <2>1. conn.job.upload \in Nat
    BY <1>3 DEF JobSet
  <2> QED BY <1>1, <1>3, <1>4, <2>1 DEF Once
<1>9. Reads'
  <2>1. IsHead' = IsHead
    BY <1>4 DEF IsHead
  <2>2. /\ reply \in ReplySet /\ Size(reply, IsHead) \in Nat
        /\ Reply(reply, IsHead) \in Seq(Units) /\ Len(Reply(reply, IsHead)) = Size(reply, IsHead)
    BY <1>2, Constants, ReplyIs
  <2>3. SubSeq(Reply(reply, IsHead), 1, Size(reply, IsHead)) = Reply(reply, IsHead)
    BY <2>2, SubSeqFull
  <2>4. SoFar(reply, IsHead, 0, conn'.response, conn'.body)
    <3>1. 0 <= Skip(reply)
      BY DEF Skip
    <3> QED BY <1>3, <1>4, <3>1 DEF SoFar
  <2>5. 0 + 1 = 1 /\ 0 \in 0 .. Size(reply, IsHead)
    BY <2>2
  <2>6. HasReadTo(conn, reply, 0)'
    BY <1>1, <1>4, <2>1, <2>3, <2>4, <2>5 DEF HasReadTo, IsHead
  <2> QED BY <1>1, <1>4, <2>1, <2>5, <2>6 DEF Reads
<1>10. BodyWhole'
  BY <1>1 DEF BodyWhole
<1> QED BY <1>5, <1>6, <1>7, <1>8, <1>9, <1>10

LEMMA SendSomeInv ==
    ASSUME Inv, SendSome
    PROVE  Inv'
<1> USE DEF Inv
<1>1. /\ UNCHANGED <<lookup, held, server, pc, reads, starting, nested, ticking, returned, calls,
                     result>>
      /\ pc = "send" /\ conn.unsent > 0 /\ wants_write' = FALSE
      /\ conn' = [conn EXCEPT !.unsent = @ - 1, !.progressed = TRUE]
      /\ reached' = IF conn.unsent = 1 + conn.job.upload THEN reached + 1 ELSE reached
      /\ clock' = [clock EXCEPT !.moved = 0]
  BY DEF SendSome, flow
<1>2. /\ conn \in Conns /\ conn.id # 0 /\ conn.socket = TRUE /\ ~lookup /\ ~starting /\ ~nested
      /\ ~ticking /\ conn.job \in JobSet /\ conn.phase = "SENDING" /\ conn.unsent \in Nat
  BY <1>1, OnSession DEF Places, Conns
<1>3. /\ conn' \in Conns /\ conn'.phase = "SENDING" /\ conn'.socket = conn.socket
      /\ conn'.out_fd = conn.out_fd /\ conn'.id = conn.id /\ conn'.job = conn.job
      /\ conn'.body = conn.body /\ conn'.unsent = conn.unsent - 1
      /\ conn'.response = conn.response /\ conn'.progressed = TRUE
  <2>1. conn.unsent - 1 \in Nat
    BY <1>1, <1>2
  <2> QED BY <1>1, <1>2, <2>1 DEF Conns
<1>4. TypeOK'
  <2>1. clock' \in [tick : 0 .. Idle, moved : 0 .. Idle, stamp : 0 .. Idle]
    <3>1. clock \in [tick : 0 .. Idle, moved : 0 .. Idle, stamp : 0 .. Idle] /\ 0 \in 0 .. Idle
      BY Constants DEF TypeOK
    <3> QED BY <1>1, <3>1
  <2>2. conn'.job.cap > 0 => Len(conn'.body) <= conn'.job.cap
    BY <1>3 DEF TypeOK
  <2>3. reached' \in Nat
    BY <1>1 DEF TypeOK
  <2> QED BY <1>1, <1>3, <2>1, <2>2, <2>3 DEF TypeOK
<1>5. Holds' /\ Places' /\ Stack' /\ Answers'
  BY <1>1, <1>2, <1>3 DEF Holds, Places, Stack, Answers, Waits
<1>6. Listens' /\ Silence'
  BY <1>1, <1>3 DEF Listens, Silence, Waits
<1>7. Once'
  <2>1. conn.job.upload \in Nat /\ reached \in Nat
    BY <1>2 DEF JobSet, TypeOK
  <2> QED BY <1>1, <1>2, <1>3, <2>1 DEF Once
<1>8. Reads'
  BY <1>1, <1>3, ReadsKept
<1>9. BodyWhole'
  BY <1>1 DEF BodyWhole
<1> QED BY <1>4, <1>5, <1>6, <1>7, <1>8, <1>9

LEMMA SendDoneInv ==
    ASSUME Inv, SendDone
    PROVE  Inv'
<1> USE DEF Inv
<1>1. /\ UNCHANGED <<lookup, held, wants_write, server, clock, ticking, reached, starting, nested,
                     returned, calls, result>>
      /\ pc = "send" /\ conn.unsent = 0 /\ pc' = "receive" /\ reads' = 0
      /\ conn' = [conn EXCEPT !.phase = "RECEIVING", !.more_to_read = FALSE]
  BY DEF SendDone, GoTo
<1>2. /\ conn \in Conns /\ conn.id # 0 /\ conn.socket = TRUE /\ ~lookup /\ ~starting /\ ~nested
      /\ ~ticking /\ conn.phase = "SENDING" /\ conn.out_fd = FALSE
  BY <1>1, OnSession DEF Places, Holds
<1>3. /\ conn' \in Conns /\ conn'.phase = "RECEIVING" /\ conn'.socket = conn.socket
      /\ conn'.out_fd = conn.out_fd /\ Alike(conn')
      /\ conn'.response = conn.response /\ conn'.progressed = conn.progressed
  BY <1>1, <1>2 DEF Conns, Alike
<1>4. TypeOK'
  <2>1. conn'.job.cap > 0 => Len(conn'.body) <= conn'.job.cap
    BY <1>3 DEF TypeOK, Alike
  <2>2. reads' \in 0 .. ReadsPerTurn
    BY <1>1, Constants
  <2> QED BY <1>1, <1>3, <2>1, <2>2 DEF TypeOK
<1>5. Holds' /\ Places' /\ Stack' /\ Answers'
  BY <1>1, <1>2, <1>3 DEF Holds, Places, Stack, Answers, Waits, Alike
<1>6. Listens' /\ Silence' /\ Once'
  BY <1>1, <1>2, <1>3 DEF Listens, Silence, Waits, Once, Alike
<1>7. Reads'
  BY <1>1, <1>2, <1>3, ReadsKept DEF Alike
<1>8. BodyWhole'
  BY <1>1 DEF BodyWhole
<1> QED BY <1>4, <1>5, <1>6, <1>7, <1>8

LEMMA BudgetSpentInv ==
    ASSUME Inv, BudgetSpent
    PROVE  Inv'
<1> USE DEF Inv
<1>1. /\ UNCHANGED <<lookup, held, wants_write, server, clock, ticking, reached>> /\ Leave
      /\ pc = "receive" /\ reads = ReadsPerTurn /\ reads' = 0
      /\ \E armed \in fetch_arm(FALSE) : conn' = [conn EXCEPT !.armed = armed]
  BY DEF BudgetSpent
<1>2. /\ conn \in Conns /\ conn.id # 0 /\ conn.socket = TRUE /\ ~lookup
      /\ conn.phase = "RECEIVING" /\ ~wants_write
  <2>1. reads > 0
    BY <1>1, Constants
  <2> QED BY <1>1, <2>1, OnSession DEF Places, Listens
<1>3. /\ conn' \in Conns /\ conn'.phase = conn.phase /\ conn'.socket = conn.socket
      /\ conn'.out_fd = conn.out_fd /\ Alike(conn')
      /\ conn'.armed \in {"IN", "refused"}
      /\ conn'.response = conn.response /\ conn'.progressed = conn.progressed
  <2>1. PICK armed \in fetch_arm(FALSE) : conn' = [conn EXCEPT !.armed = armed]
    BY <1>1
  <2>2. armed \in {"IN", "refused"}
    BY DEF fetch_arm
  <2> QED BY <1>2, <2>1, <2>2 DEF Conns, Alike
<1>4. /\ Answers' /\ Stack' /\ pc' \in {"app", "tick"} /\ starting' = FALSE
      /\ returned' \in [Requests -> {"unused", "refused", "accepted", "cancelled"}]
      /\ UNCHANGED <<nested, calls, result>>
  BY <1>1, <1>2, <1>3, LeaveInv DEF Alike
<1>5. TypeOK'
  <2>1. conn'.job.cap > 0 => Len(conn'.body) <= conn'.job.cap
    BY <1>3 DEF TypeOK, Alike
  <2>2. reads' \in 0 .. ReadsPerTurn
    BY <1>1, Constants
  <2>3. starting' \in BOOLEAN
    BY <1>4
  <2> QED BY <1>1, <1>3, <1>4, <2>1, <2>2, <2>3 DEF TypeOK
<1>6. Holds' /\ Places'
  BY <1>1, <1>2, <1>3, <1>4 DEF Holds, Places, Waits, Alike
<1>7. Listens' /\ Silence' /\ Once'
  BY <1>1, <1>2, <1>3, <1>4 DEF Listens, Silence, Waits, Once, Alike
<1>8. Reads'
  BY <1>1, <1>3, <1>4, ReadsKept DEF Alike
<1>9. BodyWhole'
  BY <1>4 DEF BodyWhole
<1> QED BY <1>4, <1>5, <1>6, <1>7, <1>8, <1>9

-----------------------------------------------------------------------------
(* The steps that read the reply. *)

\* p units of s have been read, and there is another.
ReadTo(s, p) ==
    /\ server = [reply |-> s, left |-> SubSeq(Reply(s, IsHead), p + 1, Size(s, IsHead))]
    /\ SoFar(s, IsHead, p, conn.response, conn.body)

LEMMA Receiving ==
    ASSUME Inv, pc = "receive"
    PROVE  \E s \in Replies : \E p \in 0 .. Size(s, IsHead) :
              /\ ReadTo(s, p) /\ s \in ReplySet /\ s.status \in Statuses
              /\ Size(s, IsHead) \in Nat /\ IsHead \in BOOLEAN
<1>1. conn.phase = "RECEIVING"
  BY DEF Inv, Places
<1>2. PICK s \in Replies : \E p \in 0 .. Size(s, IsHead) : HasReadTo(conn, s, p)
  BY <1>1 DEF Inv, Reads
<1>3. PICK p \in 0 .. Size(s, IsHead) : HasReadTo(conn, s, p)
  BY <1>2
<1>4. ReadTo(s, p)
  BY <1>3 DEF ReadTo, HasReadTo, IsHead
<1>5. s \in ReplySet /\ s.status \in Statuses /\ IsHead \in BOOLEAN
  BY Constants DEF Statuses, IsHead
<1>6. Size(s, IsHead) \in Nat
  BY <1>5, ReplyIs
<1> QED BY <1>4, <1>5, <1>6

\* The next unit, and what is left behind it.
LEMMA NextUnit ==
    ASSUME Inv, Reading
    PROVE  \E s \in Replies : \E p \in 0 .. Size(s, IsHead) - 1 :
              /\ ReadTo(s, p) /\ s \in ReplySet /\ s.status \in Statuses
              /\ Size(s, IsHead) \in Nat /\ IsHead \in BOOLEAN
              /\ Unit = Reply(s, IsHead)[p + 1]
              /\ Tail(server.left) = SubSeq(Reply(s, IsHead), p + 2, Size(s, IsHead))
<1>1. pc = "receive" /\ server.left # <<>>
  BY DEF Reading
<1>2. PICK s \in Replies : \E p \in 0 .. Size(s, IsHead) :
              /\ ReadTo(s, p) /\ s \in ReplySet /\ s.status \in Statuses
              /\ Size(s, IsHead) \in Nat /\ IsHead \in BOOLEAN
  BY <1>1, Receiving
<1>3. PICK p \in 0 .. Size(s, IsHead) :
              /\ ReadTo(s, p) /\ s \in ReplySet /\ s.status \in Statuses
              /\ Size(s, IsHead) \in Nat /\ IsHead \in BOOLEAN
  BY <1>2
<1> DEFINE q == Reply(s, IsHead)
           n == Size(s, IsHead)
<1>4. q \in Seq(Units) /\ Len(q) = n /\ server.left = SubSeq(q, p + 1, n)
  BY <1>3, ReplyIs DEF ReadTo
<1> HIDE DEF q, n
<1>5. p \in Nat /\ n \in Nat /\ p <= n
  BY <1>3 DEF n
<1>6. p < n
  <2>1. p = n => SubSeq(q, p + 1, n) = <<>>
    BY <1>5, SubSeqEmpty
  <2> QED BY <1>1, <1>4, <1>5, <2>1
<1>7. p + 1 \in 1 .. Len(q) /\ n \in p + 1 .. Len(q) /\ (p + 1) + 1 = p + 2
  BY <1>4, <1>5, <1>6
<1>8. Head(SubSeq(q, p + 1, n)) = q[p + 1] /\ Tail(SubSeq(q, p + 1, n)) = SubSeq(q, p + 2, n)
  BY <1>4, <1>7, HeadTailOfSubSeq
<1>9. p \in 0 .. n - 1
  BY <1>5, <1>6
<1>10. Unit = q[p + 1] /\ Tail(server.left) = SubSeq(q, p + 2, n)
  BY <1>4, <1>8 DEF Unit
<1> QED BY <1>3, <1>9, <1>10 DEF q, n

\* The request goes on, as c, after a unit that was not the last.
LEMMA GoesOnInv ==
    ASSUME Inv, Reading, NEW c \in Conns, NEW s \in Replies, NEW p \in 0 .. Size(s, IsHead) - 1,
           NEW rest, server = [reply |-> s, left |-> rest], Size(s, IsHead) \in Nat,
           Tail(rest) = SubSeq(Reply(s, IsHead), p + 2, Size(s, IsHead)),
           SoFar(s, IsHead, p + 1, c.response, c.body),
           c.id = conn.id, c.job = conn.job, c.phase = conn.phase, c.socket = conn.socket,
           c.unsent = conn.unsent, c.progressed = TRUE,
           c.out_fd => head_done(c.response),
           c.job.cap > 0 => Len(c.body) <= c.job.cap,
           c.response.phase # "DONE", FedTo(c),
           held' = [sockets |-> Count(c.socket), files |-> Count(c.out_fd)]
    PROVE  Inv'
<1> USE DEF Inv
<1>1. /\ UNCHANGED <<lookup, ticking, reached, starting, nested, returned, calls, result>>
      /\ conn' = c /\ reads' = reads + 1 /\ clock' = [clock EXCEPT !.moved = 0]
      /\ wants_write' = FALSE /\ server' = [server EXCEPT !.left = Tail(@)] /\ pc' = "receive"
      /\ pc = "receive" /\ reads < ReadsPerTurn
  BY DEF FedTo, GoTo, Reading
<1>2. /\ conn \in Conns /\ conn.id # 0 /\ conn.socket = TRUE /\ ~lookup /\ ~starting /\ ~nested
      /\ ~ticking /\ conn.phase = "RECEIVING"
      /\ {c.socket, c.out_fd} \subseteq BOOLEAN
  BY <1>1, OnSession DEF Places, Conns
<1>3. server' = [reply |-> s, left |-> SubSeq(Reply(s, IsHead), p + 2, Size(s, IsHead))]
  <2>1. server' = [reply |-> s, left |-> Tail(rest)]
    BY <1>1
  <2> QED BY <2>1
<1>4. TypeOK'
  <2>1. clock' \in [tick : 0 .. Idle, moved : 0 .. Idle, stamp : 0 .. Idle]
    <3>1. clock \in [tick : 0 .. Idle, moved : 0 .. Idle, stamp : 0 .. Idle] /\ 0 \in 0 .. Idle
      BY Constants DEF TypeOK
    <3> QED BY <1>1, <3>1
  <2>2. reads' \in 0 .. ReadsPerTurn
    <3>1. reads \in 0 .. ReadsPerTurn
      BY DEF TypeOK
    <3>2. reads' = reads + 1 /\ reads < ReadsPerTurn /\ ReadsPerTurn \in Nat
      BY <1>1, Constants
    <3> QED BY <3>1, <3>2
  <2>3. held' \in [sockets : Nat, files : Nat] /\ server'.reply \in Replies
    BY <1>3 DEF Count
  <2>4. {lookup', wants_write', starting', nested', ticking'} \subseteq BOOLEAN
    BY <1>1 DEF TypeOK
  <2>5. UNCHANGED <<reached, returned, calls, result>> /\ pc' = "receive" /\ conn' \in Conns
        /\ (conn'.job.cap > 0 => Len(conn'.body) <= conn'.job.cap)
    BY <1>1
  <2> QED BY <2>1, <2>2, <2>3, <2>4, <2>5 DEF TypeOK
<1>5. Holds' /\ Places'
  BY <1>1, <1>2 DEF Holds, Places, Waits
<1>6. Stack' /\ Answers'
  BY <1>1, <1>2 DEF Stack, Answers
<1>7. Listens' /\ Silence'
  BY <1>1 DEF Listens, Silence, Waits
<1>8. Once'
  BY <1>1, <1>2 DEF Once
<1>9. Reads'
  <2>1. IsHead' = IsHead
    BY <1>1 DEF IsHead
  <2>2. PICK i \in 0 .. Size(s, IsHead) : i = p + 1
    OBVIOUS
  <2>3. i + 1 = p + 2
    BY <2>2
  <2>4. HasReadTo(conn, s, i)'
    BY <1>1, <1>2, <1>3, <2>1, <2>2, <2>3 DEF HasReadTo, IsHead
  <2> QED BY <1>1, <1>2, <2>1, <2>4 DEF Reads
<1>10. BodyWhole'
  BY <1>1 DEF BodyWhole
<1> QED BY <1>4, <1>5, <1>6, <1>7, <1>8, <1>9, <1>10

\* The request ends, as c, with all that the server meant.
LEMMA FinishInv ==
    ASSUME Inv, pc = "receive", NEW c, c.id = conn.id, c.job = conn.job,
           c.socket = conn.socket, c.out_fd = conn.out_fd,
           c.body = Meant(server.reply, IsHead), fetch_finish(c), UNCHANGED ticking
    PROVE  Inv'
<1>1. conn.id # 0
  BY OnSession
<1>2. PICK outcome \in {"OK", "TOO_LARGE", "FILE"} : fetch_complete(c, outcome)
  BY DEF fetch_finish
<1> QED BY <1>1, <1>2, CompleteInv DEF Outcomes

\* The connection with a unit more, and a body b.
LEMMA FedIs ==
    ASSUME conn \in Conns, NEW u, NEW r, r = response_feed(conn.response, u)
    PROVE  /\ Fed(u).id = conn.id /\ Fed(u).job = conn.job /\ Fed(u).phase = conn.phase
           /\ Fed(u).socket = conn.socket /\ Fed(u).out_fd = conn.out_fd
           /\ Fed(u).unsent = conn.unsent /\ Fed(u).body = conn.body
           /\ Fed(u).redirects = conn.redirects
           /\ Fed(u).progressed = TRUE /\ Fed(u).response = r
           /\ r \in Responses(Statuses) => Fed(u) \in Conns
BY DEF Fed, Conns

LEMMA EndsInv ==
    ASSUME Inv, pc \in {"handshake", "send", "receive"}, NEW c, NEW outcome \in Outcomes \ {"OK"},
           c.id = conn.id, c.job = conn.job, c.socket = conn.socket, c.out_fd = conn.out_fd,
           Ends(c, outcome)
    PROVE  Inv'
BY OnSession, CompleteInv DEF Ends

LEMMA ReadByteInv ==
    ASSUME Inv, ReadByte
    PROVE  Inv'
<1> DEFINE r2 == response_feed(conn.response, Unit)
           c == [Fed(Unit) EXCEPT !.body = Append(@, IF Unit.kind = "byte" THEN Unit.n ELSE 0)]
<1>1. pc = "receive" /\ Reading /\ InBody(conn.response)
  BY DEF ReadByte, Reading
<1>2. /\ conn \in Conns /\ conn.socket = TRUE /\ conn.body \in Seq(Nat)
      /\ conn.response \in Responses(Statuses) /\ conn.phase = "RECEIVING"
      /\ conn.job.cap \in Nat
  BY <1>1, OnSession DEF Conns, Inv, Places, JobSet
<1>3. PICK s \in Replies : \E p \in 0 .. Size(s, IsHead) - 1 :
              /\ ReadTo(s, p) /\ s \in ReplySet /\ s.status \in Statuses
              /\ Size(s, IsHead) \in Nat /\ IsHead \in BOOLEAN
              /\ Unit = Reply(s, IsHead)[p + 1]
              /\ Tail(server.left) = SubSeq(Reply(s, IsHead), p + 2, Size(s, IsHead))
  BY <1>1, NextUnit
<1>4. PICK p \in 0 .. Size(s, IsHead) - 1 :
              /\ ReadTo(s, p) /\ s \in ReplySet /\ s.status \in Statuses
              /\ Size(s, IsHead) \in Nat /\ IsHead \in BOOLEAN
              /\ Unit = Reply(s, IsHead)[p + 1]
              /\ Tail(server.left) = SubSeq(Reply(s, IsHead), p + 2, Size(s, IsHead))
  BY <1>3
<1>5. /\ r2 \in Responses(Statuses) /\ Unit.kind = "byte" /\ Unit.n \in Nat
      /\ SoFar(s, IsHead, p + 1, r2, Append(conn.body, Unit.n))
      /\ head_done(conn.response) /\ head_done(r2)
  <2>1. SoFar(s, IsHead, p, conn.response, conn.body)
    BY <1>4 DEF ReadTo
  <2>2. conn.response.phase # "HEAD"
    BY <1>1 DEF InBody
  <2>3. p > Skip(s) /\ p >= Skip(s)
    <3>1. ~(p <= Skip(s))
      BY <2>1, <2>2 DEF SoFar, response_init
    <3> QED BY <3>1, <1>4 DEF Skip
  <2> QED BY <1>1, <1>2, <1>4, <2>1, <2>3, Feed
<1> HIDE DEF r2
<1>6. Append(conn.body, Unit.n) \in Seq(Nat) /\ Len(Append(conn.body, Unit.n)) = Len(conn.body) + 1
  BY <1>2, <1>5, AppendProperties
<1>7. /\ c \in Conns /\ c.id = conn.id /\ c.job = conn.job /\ c.phase = conn.phase
      /\ c.socket = conn.socket /\ c.out_fd = conn.out_fd /\ c.unsent = conn.unsent
      /\ c.progressed = TRUE /\ c.response = r2 /\ c.body = Append(conn.body, Unit.n)
  <2>1. /\ Fed(Unit) \in Conns /\ Fed(Unit).id = conn.id /\ Fed(Unit).job = conn.job
        /\ Fed(Unit).phase = conn.phase /\ Fed(Unit).socket = conn.socket
        /\ Fed(Unit).out_fd = conn.out_fd /\ Fed(Unit).unsent = conn.unsent
        /\ Fed(Unit).progressed = TRUE /\ Fed(Unit).response = r2 /\ Fed(Unit).body = conn.body
    BY <1>2, <1>5, FedIs DEF r2
  <2> QED BY <1>5, <1>6, <2>1 DEF Conns
<1>8. server = [reply |-> s, left |-> server.left] /\ server.reply = s
  BY <1>4 DEF ReadTo
<1> HIDE DEF c
<1>9. CASE Ends(conn, "TOO_LARGE") \/ Ends(c, "FILE")
  BY <1>1, <1>7, <1>9, EndsInv DEF Outcomes
<1>10. CASE /\ ~Full(conn) /\ FedTo(c) /\ (c.response.phase # "DONE" => UNCHANGED held)
  <2>1. CASE c.response.phase = "DONE"
    <3>1. fetch_finish(c) /\ UNCHANGED ticking
      BY <1>10, <2>1 DEF FedTo
    <3>2. PICK i \in 0 .. Size(s, IsHead) : i = p + 1
      BY <1>4
    <3>3. c.body = Meant(server.reply, IsHead)
      <4>1. SoFar(s, IsHead, i, c.response, c.body)
        BY <1>5, <1>7, <3>2
      <4> QED BY <1>4, <1>8, <2>1, <4>1, Whole
    <3> QED BY <1>1, <1>7, <3>1, <3>3, FinishInv
  <2>2. CASE c.response.phase # "DONE"
    <3>1. held' = [sockets |-> Count(c.socket), files |-> Count(c.out_fd)]
      BY <1>7, <1>10, <2>2 DEF Inv, Holds
    <3>2. c.job.cap > 0 => Len(c.body) <= c.job.cap
      <4>1. Len(conn.body) \in Nat
        BY <1>2
      <4> QED BY <1>2, <1>6, <1>7, <1>10, <4>1 DEF Full
    <3>3. head_done(c.response) /\ SoFar(s, IsHead, p + 1, c.response, c.body)
      BY <1>5, <1>7
    <3>4. FedTo(c)
      BY <1>10
    <3> QED BY <1>1, <1>4, <1>7, <1>8, <2>2, <3>1, <3>2, <3>3, <3>4, GoesOnInv
  <2> QED BY <2>1, <2>2
<1> QED BY <1>9, <1>10 DEF ReadByte, c

LEMMA ReadFramingInv ==
    ASSUME Inv, ReadFraming
    PROVE  Inv'
<1> DEFINE r2 == response_feed(conn.response, Unit)
           c == Fed(Unit)
<1>1. /\ pc = "receive" /\ Reading /\ ~InBody(conn.response)
      /\ FedTo(c) /\ (c.response.phase # "DONE" => UNCHANGED held)
      /\ head_done(conn.response) \/ ~head_done(c.response)
  BY DEF ReadFraming, Reading
<1>2. /\ conn \in Conns /\ conn.socket = TRUE
      /\ conn.response \in Responses(Statuses) /\ conn.phase = "RECEIVING"
  BY <1>1, OnSession DEF Conns, Inv, Places
<1>3. PICK s \in Replies : \E p \in 0 .. Size(s, IsHead) - 1 :
              /\ ReadTo(s, p) /\ s \in ReplySet /\ s.status \in Statuses
              /\ Size(s, IsHead) \in Nat /\ IsHead \in BOOLEAN
              /\ Unit = Reply(s, IsHead)[p + 1]
              /\ Tail(server.left) = SubSeq(Reply(s, IsHead), p + 2, Size(s, IsHead))
  BY <1>1, NextUnit
<1>4. PICK p \in 0 .. Size(s, IsHead) - 1 :
              /\ ReadTo(s, p) /\ s \in ReplySet /\ s.status \in Statuses
              /\ Size(s, IsHead) \in Nat /\ IsHead \in BOOLEAN
              /\ Unit = Reply(s, IsHead)[p + 1]
              /\ Tail(server.left) = SubSeq(Reply(s, IsHead), p + 2, Size(s, IsHead))
  BY <1>3
<1>5. /\ r2 \in Responses(Statuses) /\ SoFar(s, IsHead, p + 1, r2, conn.body)
      /\ head_done(conn.response) => head_done(r2)
  <2>1. SoFar(s, IsHead, p, conn.response, conn.body)
    BY <1>4 DEF ReadTo
  <2>2. Skip(s) \in Nat /\ p \in Nat
    BY <1>4 DEF Skip
  <2>3. /\ r2 \in Responses(Statuses) /\ SoFar(s, IsHead, p + 1, r2, conn.body)
        /\ head_done(conn.response) <=> p > Skip(s)
        /\ head_done(r2) <=> p >= Skip(s)
    BY <1>1, <1>2, <1>4, <2>1, Feed
  <2> QED BY <2>2, <2>3
<1> HIDE DEF r2
<1>6. /\ c \in Conns /\ c.id = conn.id /\ c.job = conn.job /\ c.phase = conn.phase
      /\ c.socket = conn.socket /\ c.out_fd = conn.out_fd /\ c.unsent = conn.unsent
      /\ c.progressed = TRUE /\ c.response = r2 /\ c.body = conn.body
  BY <1>2, <1>5, FedIs DEF r2
<1>7. server = [reply |-> s, left |-> server.left] /\ server.reply = s
  BY <1>4 DEF ReadTo
<1> HIDE DEF c
<1>8. CASE c.response.phase = "DONE"
  <2>1. fetch_finish(c) /\ UNCHANGED ticking
    BY <1>1, <1>8 DEF FedTo
  <2>2. PICK i \in 0 .. Size(s, IsHead) : i = p + 1
    BY <1>4
  <2>3. c.body = Meant(server.reply, IsHead)
    <3>1. SoFar(s, IsHead, i, c.response, c.body)
      BY <1>5, <1>6, <2>2
    <3> QED BY <1>4, <1>7, <1>8, <3>1, Whole
  <2> QED BY <1>1, <1>6, <2>1, <2>3, FinishInv
<1>9. CASE c.response.phase # "DONE"
  <2>1. held' = [sockets |-> Count(c.socket), files |-> Count(c.out_fd)]
    BY <1>1, <1>6, <1>9 DEF Inv, Holds
  <2>2. c.job.cap > 0 => Len(c.body) <= c.job.cap
    BY <1>6 DEF Inv, TypeOK
  <2>3. /\ c.out_fd => head_done(c.response)
        /\ SoFar(s, IsHead, p + 1, c.response, c.body)
    BY <1>5, <1>6 DEF Inv, Holds
  <2> QED BY <1>1, <1>4, <1>6, <1>7, <1>9, <2>1, <2>2, <2>3, GoesOnInv
<1> QED BY <1>8, <1>9

LEMMA NothingHeld == [sockets |-> 0, files |-> 0] \in [sockets : Nat, files : Nat]
OBVIOUS

\* The head of a redirect is followed: the connection goes, the request stays.
LEMMA FollowInv ==
    ASSUME Inv, pc = "receive", NEW c \in Conns, c.id = conn.id, c.job = conn.job,
           c.unsent = conn.unsent, c.socket = conn.socket, c.out_fd = FALSE, c.body = <<>>,
           conn.out_fd = FALSE, c.redirects < MaxRedirects, c.job.method # "POST",
           conn' = [Dropped(c) EXCEPT !.redirects = @ + 1],
           held' = Closed(TRUE, FALSE), server' = NoServer, wants_write' = FALSE, reads' = 0,
           clock' = [NewClock EXCEPT !.tick = clock.tick], GoTo("hop"),
           UNCHANGED <<lookup, ticking, reached>>
    PROVE  Inv'
<1> USE DEF Inv
<1>1. UNCHANGED <<starting, nested, returned, calls, result>> /\ pc' = "hop"
  BY DEF GoTo
<1>2. /\ conn \in Conns /\ conn.id # 0 /\ conn.socket = TRUE /\ ~lookup /\ ~starting /\ ~nested
      /\ ~ticking
  BY OnSession
<1>3. /\ conn' \in Conns /\ conn'.id = conn.id /\ conn'.job = conn.job
      /\ conn'.unsent = conn.unsent /\ conn'.socket = FALSE /\ conn'.out_fd = FALSE
      /\ conn'.body = <<>>
  <2>1. c.redirects + 1 \in 0 .. MaxRedirects
    BY Constants DEF Conns
  <2> QED BY <2>1 DEF Dropped, Conns
<1>4. held' = [sockets |-> 0, files |-> 0]
  BY <1>2 DEF Holds, Closed, Count
<1>5. conn'.job.cap \in Nat /\ Len(conn'.body) = 0
  <2>1. conn'.job \in JobSet
    BY <1>3, Constants DEF Conns
  <2> QED BY <1>3, <2>1 DEF JobSet
<1>6. TypeOK'
  <2>1. clock' \in [tick : 0 .. Idle, moved : 0 .. Idle, stamp : 0 .. Idle]
    <3>1. clock.tick \in 0 .. Idle
      BY DEF TypeOK
    <3> QED BY <3>1, NewClockIs
  <2>2. reads' \in 0 .. ReadsPerTurn
    BY Constants
  <2>6. held' \in [sockets : Nat, files : Nat]
    BY <1>4, NothingHeld
  <2>7. server'.reply \in Replies \cup {NoServer.reply}
    OBVIOUS
  <2>3. {lookup', wants_write', starting', nested', ticking'} \subseteq BOOLEAN
    BY <1>1 DEF TypeOK
  <2>4. conn'.job.cap > 0 => Len(conn'.body) <= conn'.job.cap
    BY <1>5
  <2>5. UNCHANGED <<reached, returned, calls, result>> /\ pc' = "hop"
    BY <1>1
  <2> QED BY <1>3, <2>1, <2>2, <2>3, <2>4, <2>5, <2>6, <2>7 DEF TypeOK
<1>7. Holds' /\ Places'
  BY <1>1, <1>2, <1>3, <1>4 DEF Holds, Places, Waits, Count
<1>8. Stack' /\ Answers' /\ Listens' /\ Silence'
  BY <1>1, <1>2, <1>3 DEF Stack, Answers, Listens, Silence, Waits
<1>9. Once'
  BY <1>1, <1>2, <1>3 DEF Once
<1>10. Reads' /\ BodyWhole'
  BY <1>1, <1>3 DEF Reads, BodyWhole
<1> QED BY <1>6, <1>7, <1>8, <1>9, <1>10

LEMMA ReadHeadInv ==
    ASSUME Inv, ReadHead
    PROVE  Inv'
<1> DEFINE r2 == response_feed(conn.response, Unit)
           c == Fed(Unit)
           f == [c EXCEPT !.out_fd = TRUE]
           verdict == fetch_on_head(c)
<1>1. /\ pc = "receive" /\ Reading /\ ~head_done(conn.response) /\ head_done(c.response)
  BY DEF ReadHead, Reading
<1>2. /\ conn \in Conns /\ conn.socket = TRUE
      /\ conn.response \in Responses(Statuses) /\ conn.phase = "RECEIVING"
  BY <1>1, OnSession DEF Conns, Inv, Places
<1>3. PICK s \in Replies : \E p \in 0 .. Size(s, IsHead) - 1 :
              /\ ReadTo(s, p) /\ s \in ReplySet /\ s.status \in Statuses
              /\ Size(s, IsHead) \in Nat /\ IsHead \in BOOLEAN
              /\ Unit = Reply(s, IsHead)[p + 1]
              /\ Tail(server.left) = SubSeq(Reply(s, IsHead), p + 2, Size(s, IsHead))
  BY <1>1, NextUnit
<1>4. PICK p \in 0 .. Size(s, IsHead) - 1 :
              /\ ReadTo(s, p) /\ s \in ReplySet /\ s.status \in Statuses
              /\ Size(s, IsHead) \in Nat /\ IsHead \in BOOLEAN
              /\ Unit = Reply(s, IsHead)[p + 1]
              /\ Tail(server.left) = SubSeq(Reply(s, IsHead), p + 2, Size(s, IsHead))
  BY <1>3
<1>5. /\ r2 \in Responses(Statuses) /\ SoFar(s, IsHead, p + 1, r2, conn.body)
      /\ conn.body = <<>>
  <2>1. SoFar(s, IsHead, p, conn.response, conn.body)
    BY <1>4 DEF ReadTo
  <2>2. Skip(s) \in Nat /\ p \in Nat
    BY <1>4 DEF Skip
  <2>3. head_done(conn.response) <=> p > Skip(s)
    BY <1>2, <1>4, <2>1, Feed
  <2>4. p <= Skip(s)
    BY <1>1, <2>2, <2>3
  <2>5. conn.body = <<>> /\ conn.response = response_init(IsHead)
    BY <2>1, <2>4 DEF SoFar
  <2>6. ~InBody(conn.response)
    BY <2>5 DEF response_init, InBody
  <2> QED BY <1>2, <1>4, <2>1, <2>5, <2>6, Feed
<1> HIDE DEF r2
<1>6. /\ c \in Conns /\ c.id = conn.id /\ c.job = conn.job /\ c.phase = conn.phase
      /\ c.socket = conn.socket /\ c.out_fd = conn.out_fd /\ c.unsent = conn.unsent
      /\ c.progressed = TRUE /\ c.response = r2 /\ c.body = conn.body
      /\ c.redirects = conn.redirects
  BY <1>2, <1>5, FedIs DEF r2
<1>7. server = [reply |-> s, left |-> server.left] /\ server.reply = s
  BY <1>4 DEF ReadTo
<1>8. conn.out_fd = FALSE /\ c.out_fd = FALSE
  BY <1>1, <1>2, <1>6 DEF Inv, Holds, Conns
<1>9. c.job.cap > 0 => Len(c.body) <= c.job.cap
  BY <1>6 DEF Inv, TypeOK
<1> HIDE DEF c
<1>10. CASE verdict \in Outcomes /\ Ends(c, verdict)
  <2>1. verdict # "OK"
    BY DEF fetch_on_head
  <2> QED BY <1>1, <1>6, <1>10, <2>1, EndsInv
<1>11. CASE /\ verdict = "hop"
            /\ conn' = [Dropped(c) EXCEPT !.redirects = @ + 1]
            /\ held' = Closed(TRUE, FALSE)
            /\ server' = NoServer /\ wants_write' = FALSE /\ reads' = 0
            /\ clock' = [NewClock EXCEPT !.tick = clock.tick]
            /\ GoTo("hop")
            /\ UNCHANGED <<lookup, ticking, reached>>
  <2>1. ~(c.redirects >= MaxRedirects) /\ c.job.method # "POST"
    BY <1>11 DEF fetch_on_head, Redirects
  <2>2. c.redirects < MaxRedirects
    <3>1. c.redirects \in Nat
      BY <1>6, Constants DEF Conns
    <3> QED BY <2>1, <3>1, Constants
  <2> QED BY <1>1, <1>5, <1>6, <1>8, <1>11, <2>1, <2>2, FollowInv
<1>12. CASE fetch_finish(c) /\ UNCHANGED ticking /\ c.response.phase = "DONE"
  <2>1. PICK i \in 0 .. Size(s, IsHead) : i = p + 1
    BY <1>4
  <2>2. c.body = Meant(server.reply, IsHead)
    <3>1. SoFar(s, IsHead, i, c.response, c.body)
      BY <1>5, <1>6, <2>1
    <3> QED BY <1>4, <1>7, <1>12, <3>1, Whole
  <2> QED BY <1>1, <1>6, <1>12, <2>2, FinishInv
<1>13. CASE Ends(c, "FILE")
  BY <1>1, <1>6, <1>13, EndsInv DEF Outcomes
<1>14. CASE /\ c.response.phase # "DONE" /\ held' = [held EXCEPT !.files = @ + 1] /\ FedTo(f)
  <2>1. /\ f \in Conns /\ f.id = conn.id /\ f.job = conn.job /\ f.phase = conn.phase
        /\ f.socket = conn.socket /\ f.out_fd = TRUE /\ f.unsent = conn.unsent
        /\ f.progressed = TRUE /\ f.response = c.response /\ f.body = c.body
    BY <1>6 DEF Conns
  <2> HIDE DEF f
  <2>2. held' = [sockets |-> Count(f.socket), files |-> Count(f.out_fd)]
    BY <1>8, <1>14, <2>1 DEF Inv, Holds, Count
  <2>3. /\ f.out_fd => head_done(f.response)
        /\ SoFar(s, IsHead, p + 1, f.response, f.body)
        /\ f.job.cap > 0 => Len(f.body) <= f.job.cap
    BY <1>1, <1>5, <1>6, <1>9, <2>1 DEF c
  <2>4. FedTo(f) /\ f.response.phase # "DONE"
    BY <1>14, <2>1
  <2> QED BY <1>1, <1>4, <1>7, <2>1, <2>2, <2>3, <2>4, GoesOnInv
<1>15. CASE /\ c.response.phase # "DONE" /\ FedTo(c) /\ UNCHANGED held
  <2>1. held' = [sockets |-> Count(c.socket), files |-> Count(c.out_fd)]
    BY <1>6, <1>15 DEF Inv, Holds
  <2>2. /\ c.out_fd => head_done(c.response)
        /\ SoFar(s, IsHead, p + 1, c.response, c.body)
    BY <1>1, <1>5, <1>6 DEF c
  <2> QED BY <1>1, <1>4, <1>6, <1>7, <1>9, <1>15, <2>1, <2>2, GoesOnInv
<1>16. CASE FedTo(c) /\ (c.response.phase # "DONE" => UNCHANGED held)
  BY <1>12, <1>15, <1>16 DEF FedTo
<1> QED
  <2>1. \/ verdict \in Outcomes /\ Ends(c, verdict)
        \/ /\ verdict = "hop"
           /\ conn' = [Dropped(c) EXCEPT !.redirects = @ + 1]
           /\ held' = Closed(TRUE, FALSE)
           /\ server' = NoServer /\ wants_write' = FALSE /\ reads' = 0
           /\ clock' = [NewClock EXCEPT !.tick = clock.tick]
           /\ GoTo("hop")
           /\ UNCHANGED <<lookup, ticking, reached>>
        \/ Ends(c, "FILE")
        \/ c.response.phase # "DONE" /\ held' = [held EXCEPT !.files = @ + 1] /\ FedTo(f)
        \/ c.response.phase = "DONE" /\ fetch_finish(c) /\ UNCHANGED ticking
        \/ FedTo(c) /\ (c.response.phase # "DONE" => UNCHANGED held)
    BY DEF ReadHead, c
  <2> QED BY <1>10, <1>11, <1>12, <1>13, <1>14, <1>16, <2>1

\* The connection ends: with the whole body, or as an error.
LEMMA ReadClosesInv ==
    ASSUME Inv, NEW clean \in BOOLEAN, ReadCloses(clean)
    PROVE  Inv'
<1>1. pc = "receive"
  BY DEF ReadCloses
<1>2. CASE Ends(conn, "NETWORK")
  BY <1>1, <1>2, EndsInv DEF Outcomes
<1>3. CASE /\ head_done(conn.response) /\ response_finish(conn.response)
           /\ ~(conn.response.framing = "UNTIL_CLOSE" /\ ~clean)
           /\ fetch_finish(conn) /\ UNCHANGED ticking
  <2>1. pc = "receive"
    BY <1>1
  <2>2. PICK s \in Replies : \E p \in 0 .. Size(s, IsHead) :
              /\ ReadTo(s, p) /\ s \in ReplySet /\ s.status \in Statuses
              /\ Size(s, IsHead) \in Nat /\ IsHead \in BOOLEAN
    BY <2>1, Receiving
  <2>3. PICK p \in 0 .. Size(s, IsHead) :
              /\ ReadTo(s, p) /\ s \in ReplySet /\ s.status \in Statuses
              /\ Size(s, IsHead) \in Nat /\ IsHead \in BOOLEAN
    BY <2>2
  <2>4. /\ server.reply = s /\ server.left = SubSeq(Reply(s, IsHead), p + 1, Size(s, IsHead))
        /\ SoFar(s, IsHead, p, conn.response, conn.body)
    BY <2>3 DEF ReadTo
  <2>5. /\ conn.response.phase = "DONE" => conn.body = Meant(s, IsHead)
        /\ conn.response.phase = "UNTIL_CLOSE" =>
              /\ conn.response.framing = "UNTIL_CLOSE" /\ s.coding = "close"
              /\ p = Size(s, IsHead) => conn.body = Meant(s, IsHead)
    BY <2>3, <2>4, Whole
  <2>6. server.left = <<>> => p = Size(s, IsHead)
    <3> DEFINE q == Reply(s, IsHead)
               n == Size(s, IsHead)
    <3>1. q \in Seq(Units) /\ Len(q) = n /\ n \in Nat /\ p \in Nat /\ p <= n
      BY <2>3, ReplyIs
    <3>2. server.left = SubSeq(q, p + 1, n)
      BY <2>4
    <3> HIDE DEF q, n
    <3>3. \A i \in p + 1 .. n : q[i] \in Units
      BY <3>1, ElementOfSeq
    <3>4. Len(SubSeq(q, p + 1, n)) = IF p + 1 <= n THEN n - (p + 1) + 1 ELSE 0
      BY <3>1, <3>3, SubSeqProperties
    <3>5. server.left = <<>> => p = n
      BY <3>1, <3>2, <3>4
    <3> QED BY <3>5 DEF n
  <2>7. conn.body = Meant(server.reply, IsHead)
    BY <1>3, <2>4, <2>5, <2>6 DEF response_finish, ReadCloses
  <2> QED BY <1>3, <2>1, <2>7, FinishInv
<1> QED BY <1>2, <1>3 DEF ReadCloses, fetch_on_close

LEMMA SessionInv ==
    ASSUME Inv, Session
    PROVE  Inv'
<1>1. CASE OnFd
  BY <1>1, OnFdInv
<1>2. CASE \E write \in BOOLEAN, more \in BOOLEAN : WouldBlock(write, more)
  BY <1>2, WouldBlockInv
<1>3. CASE HandshakeFails
  <2>1. PICK outcome \in {"TLS", "PROTOCOL"} : fetch_complete(conn, outcome)
    BY <1>3 DEF HandshakeFails
  <2>2. pc = "handshake" /\ Ends(conn, outcome)
    BY <1>3, <2>1 DEF HandshakeFails, Ends
  <2> QED BY <2>2, EndsInv DEF Outcomes
<1>4. CASE \E reply \in Replies : Handshaken(reply)
  BY <1>4, HandshakenInv
<1>5. CASE SendSome
  BY <1>5, SendSomeInv
<1>6. CASE SendFails
  <2>1. pc = "send" /\ Ends(conn, "NETWORK")
    BY <1>6 DEF SendFails, Ends
  <2> QED BY <2>1, EndsInv DEF Outcomes
<1>7. CASE SendDone
  BY <1>7, SendDoneInv
<1>8. CASE ReadJunk
  <2>1. pc = "receive" /\ Ends(Fed(JunkUnit), "PROTOCOL")
    BY <1>8 DEF ReadJunk
  <2>2. conn \in Conns
    BY <2>1, OnSession
  <2> QED BY <2>1, <2>2, FedIs, EndsInv DEF Outcomes
<1>9. CASE ReadHead \/ ReadByte \/ ReadFraming
  BY <1>9, ReadHeadInv, ReadByteInv, ReadFramingInv
<1>10. CASE BudgetSpent
  BY <1>10, BudgetSpentInv
<1>11. CASE \E clean \in BOOLEAN : ReadCloses(clean)
  BY <1>11, ReadClosesInv
<1> QED BY <1>1, <1>2, <1>3, <1>4, <1>5, <1>6, <1>7, <1>8, <1>9, <1>10, <1>11 DEF Session

-----------------------------------------------------------------------------
(* The tick and the clock. *)

LEMMA TickInv ==
    ASSUME Inv, Tick \/ ResolveTickQuiet \/ TickIdleFetch
    PROVE  Inv'
<1> USE DEF Inv
<1>1. UNCHANGED <<conn, lookup, held, wants_write, server, reads, starting, nested, returned,
                  calls, result, reached>>
  BY DEF Tick, ResolveTickQuiet, TickIdleFetch, seen
<1>2. /\ pc \in Waits /\ pc' \in Waits /\ ~nested
      /\ clock' \in [tick : 0 .. Idle, moved : 0 .. Idle, stamp : 0 .. Idle]
      /\ clock'.stamp = clock.stamp /\ clock'.moved = clock.moved
      /\ ticking' \in BOOLEAN /\ ~starting
      /\ pc' = "app" => ticking' = FALSE
      /\ pc' \in {"tick", "resolve_tick"} => ticking' = TRUE
  <2>1. /\ clock \in [tick : 0 .. Idle, moved : 0 .. Idle, stamp : 0 .. Idle] /\ 0 \in 0 .. Idle
        /\ ticking \in BOOLEAN
    BY Constants DEF TypeOK
  <2>2. CASE Tick
    BY <2>1, <2>2 DEF Tick, InLoop, Waits, Stack
  <2>3. CASE ResolveTickQuiet
    <3>1. pc = "resolve_tick" /\ pc' = "tick" /\ UNCHANGED <<clock, ticking>>
      BY <2>3 DEF ResolveTickQuiet
    <3>2. ticking = TRUE
      BY <2>1, <3>1 DEF Stack
    <3> QED BY <2>1, <3>1, <3>2 DEF Waits, Stack
  <2>4. CASE TickIdleFetch
    BY <2>1, <2>4 DEF TickIdleFetch, Waits, Stack
  <2> QED BY <2>2, <2>3, <2>4
<1>3. TypeOK'
  BY <1>1, <1>2 DEF TypeOK, Waits
<1>4. Holds' /\ Places' /\ Stack'
  BY <1>1, <1>2 DEF Holds, Places, Stack, Waits
<1>5. Listens' /\ Silence' /\ Once'
  BY <1>1, <1>2 DEF Listens, Silence, Once, Waits
<1>6. Answers'
  BY <1>1 DEF Answers
<1>7. Reads' /\ BodyWhole'
  BY <1>1, <1>2, ReadsKept DEF BodyWhole, Waits
<1> QED BY <1>3, <1>4, <1>5, <1>6, <1>7

LEMMA TickEndsInv ==
    ASSUME Inv, TickEnds
    PROVE  Inv'
<1> USE DEF Inv
<1>1. /\ UNCHANGED <<lookup, held, wants_write, server, reached, starting, nested, returned,
                     calls, result>>
      /\ pc = "tick" /\ conn.id # 0 /\ ticking' = FALSE /\ reads' = 0
      /\ conn' = [conn EXCEPT !.progressed = FALSE, !.more_to_read = FALSE]
      /\ clock' = IF conn.progressed THEN [clock EXCEPT !.stamp = 0] ELSE clock
      /\ pc' = IF conn.more_to_read /\ conn.phase = "RECEIVING" THEN "receive" ELSE "app"
  BY DEF TickEnds, InTick, GoTo
<1>2. /\ conn' \in Conns /\ Alike(conn') /\ conn'.phase = conn.phase
      /\ conn'.socket = conn.socket /\ conn'.out_fd = conn.out_fd /\ conn'.armed = conn.armed
      /\ conn'.response = conn.response /\ conn'.progressed = FALSE
  <2>1. conn \in Conns
    BY DEF TypeOK, Conns
  <2> QED BY <1>1, <2>1 DEF Conns, Alike
<1>3. ~nested /\ ~starting
  BY <1>1 DEF Stack
<1>4. /\ clock \in [tick : 0 .. Idle, moved : 0 .. Idle, stamp : 0 .. Idle] /\ 0 \in 0 .. Idle
      /\ conn.progressed \in BOOLEAN
  BY Constants DEF TypeOK, Conns
<1>5. /\ clock' \in [tick : 0 .. Idle, moved : 0 .. Idle, stamp : 0 .. Idle]
      /\ clock'.moved = clock.moved
      /\ clock'.stamp = IF conn.progressed THEN 0 ELSE clock.stamp
  BY <1>1, <1>4
<1>6. TypeOK'
  <2>1. conn'.job.cap > 0 => Len(conn'.body) <= conn'.job.cap
    BY <1>2 DEF TypeOK, Alike
  <2>2. reads' \in 0 .. ReadsPerTurn
    BY <1>1, Constants
  <2>3. ticking' \in BOOLEAN /\ pc' \in {"app", "receive"}
    BY <1>1
  <2> QED BY <1>1, <1>2, <1>5, <2>1, <2>2, <2>3 DEF TypeOK
<1>7. Holds' /\ Places'
  BY <1>1, <1>2 DEF Holds, Places, Waits, Alike
<1>8. Stack' /\ Answers'
  BY <1>1, <1>2, <1>3 DEF Stack, Answers, Alike
<1>9. Listens' /\ Once'
  BY <1>1, <1>2 DEF Listens, Once, Waits, Alike
<1>10. Silence'
  <2>1. clock.moved \in Nat /\ clock.stamp \in Nat
    BY <1>4
  <2> QED BY <1>1, <1>2, <1>5, <2>1 DEF Silence
<1>11. Reads' /\ BodyWhole'
  BY <1>1, <1>2, ReadsKept DEF BodyWhole, Alike
<1> QED BY <1>6, <1>7, <1>8, <1>9, <1>10, <1>11

LEMMA ClockInv ==
    ASSUME Inv, Clock
    PROVE  Inv'
<1> USE DEF Inv
<1>1. /\ UNCHANGED <<conn, lookup, held, wants_write, server, pc, reads, starting, nested, ticking,
                     returned, calls, result, reached>>
      /\ clock' = [tick |-> Older(clock.tick), moved |-> Older(clock.moved),
                   stamp |-> Older(clock.stamp)]
  BY DEF Clock, flow, seen
<1>2. clock.tick \in 0 .. Idle /\ clock.moved \in 0 .. Idle /\ clock.stamp \in 0 .. Idle
  BY DEF TypeOK
<1>3. ASSUME NEW a \in 0 .. Idle PROVE Older(a) \in 0 .. Idle
  BY Constants DEF Older
<1>4. clock.stamp <= clock.moved => Older(clock.stamp) <= Older(clock.moved)
  BY <1>2, Constants DEF Older
<1>5. TypeOK'
  <2>1. clock' \in [tick : 0 .. Idle, moved : 0 .. Idle, stamp : 0 .. Idle]
    BY <1>1, <1>2, <1>3
  <2> QED BY <1>1, <2>1 DEF TypeOK
<1>6. Holds' /\ Places' /\ Stack' /\ Listens' /\ Once' /\ Answers'
  BY <1>1 DEF Holds, Places, Stack, Listens, Once, Answers
<1>7. Silence'
  BY <1>1, <1>4 DEF Silence
<1>8. Reads' /\ BodyWhole'
  BY <1>1, ReadsKept DEF BodyWhole
<1> QED BY <1>5, <1>6, <1>7, <1>8

LEMMA TicksInv ==
    ASSUME Inv, Ticks
    PROVE  Inv'
<1>1. CASE Tick \/ ResolveTickQuiet \/ TickIdleFetch
  BY <1>1, TickInv
<1>2. CASE TickDeadline \/ TickIdle
  <2>1. /\ pc = "tick" /\ conn.id # 0 /\ ticking' = FALSE /\ fetch_complete(conn, "TIMED_OUT")
    BY <1>2 DEF TickDeadline, TickIdle, InTick
  <2>2. ~starting
    BY <2>1 DEF Inv, Stack
  <2> QED BY <2>1, <2>2, CompleteInv DEF Outcomes
<1>3. CASE TickAttempt
  <2>1. /\ pc = "tick" /\ conn.id # 0 /\ ticking' = FALSE /\ TryAnother
        /\ conn.phase = "CONNECTING"
    BY <1>3 DEF TickAttempt, InTick
  <2>2. ~nested
    BY <2>1 DEF Inv, Stack
  <2> QED BY <2>1, <2>2, TryAnotherInv
<1>4. CASE TickEnds
  BY <1>4, TickEndsInv
<1> QED BY <1>1, <1>2, <1>3, <1>4 DEF Ticks

-----------------------------------------------------------------------------
(* The theorems. *)

LEMMA InitInv ==
    ASSUME Init
    PROVE  Inv
<1> USE DEF Init
<1>1. TypeOK
  <2>1. conn \in Conns /\ ~(conn.job.cap > 0)
    BY NoConnIs
  <2>2. /\ held \in [sockets : Nat, files : Nat] /\ server.reply \in Replies \cup {NoServer.reply}
        /\ result.outcome = "none" /\ reached \in Nat
        /\ returned \in [Requests -> {"unused", "refused", "accepted", "cancelled"}]
        /\ calls \in [Requests -> Nat]
    BY DEF NoResult
  <2>3. reads \in 0 .. ReadsPerTurn
    BY Constants
  <2>4. clock \in [tick : 0 .. Idle, moved : 0 .. Idle, stamp : 0 .. Idle]
    BY NewClockIs
  <2> QED BY <2>1, <2>2, <2>3, <2>4 DEF TypeOK
<1>2. Holds /\ Places /\ Stack
  BY NoConnIs DEF Holds, Places, Stack, Count, Waits
<1>3. Listens /\ Once /\ Silence
  BY NoConnIs DEF Listens, Once, Silence
<1>4. Answers /\ Reads /\ BodyWhole
  BY NoConnIs DEF Answers, Reads, BodyWhole, NoResult
<1> QED BY <1>1, <1>2, <1>3, <1>4 DEF Inv

LEMMA StutterInv ==
    ASSUME Inv, UNCHANGED vars
    PROVE  Inv'
<1>1. UNCHANGED <<conn, lookup, held, wants_write, server, clock, pc, reads, starting, nested,
                  ticking, returned, calls, result, reached>>
  BY DEF vars, flow, seen
<1>2. TypeOK' /\ Holds' /\ Places' /\ Stack' /\ Listens' /\ Once' /\ Silence' /\ Answers' /\ BodyWhole'
  BY <1>1 DEF Inv, TypeOK, Holds, Places, Stack, Listens, Once, Silence, Answers, BodyWhole
<1>3. Reads'
  BY <1>1, ReadsKept DEF Inv
<1> QED BY <1>2, <1>3 DEF Inv

\* The inductive invariant: what is held, where the thread is, which way the loop
\* listens, how far a POST and the reply have got, what the stamps say and what
\* the caller has been told, at every step of fetch.c.
THEOREM Invariant == SafeSpec => []Inv
<1>1. Init => Inv
  BY InitInv
<1>2. Inv /\ [Next \/ Done]_vars => Inv'
  BY CallerInv, HopInv, SessionInv, TicksInv, ClockInv, StutterInv DEF Next, Done
<1> QED BY <1>1, <1>2, PTL DEF SafeSpec

\* What a request holds and listens for is what it needs, at every step: no socket,
\* file or lookup outlives the request that took it, whichever way that one ended,
\* and the loop waits for a session in the direction the session is blocked in,
\* unless it refused the change.
THEOREM OwnsResources == SafeSpec => []ResourcesOwned
<1>1. Inv => ResourcesOwned
  <2> SUFFICES ASSUME Inv PROVE ResourcesOwned
    OBVIOUS
  <2> USE DEF Inv
  <2>1. NothingLeaks
    BY DEF Holds, Places, NothingLeaks, Waits
  <2>2. ListensForSession
    BY NoConnIs DEF Listens, Places, Holds, ListensForSession, Waits
  <2> QED BY <2>1, <2>2 DEF ResourcesOwned
<1> QED BY <1>1, Invariant, PTL

\* A request ends OK only with the body the server meant, however the reply was
\* framed, split over reads and preceded by redirects, and the bytes of a POST go
\* out on one connection only.
THEOREM Faithful == SafeSpec => []ExchangeFaithful
<1>1. Inv => ExchangeFaithful
  BY DEF Inv, ExchangeFaithful, SentOnce, Once
<1> QED BY <1>1, Invariant, PTL

\* The idle timeout of fetch_tick() ends a request only if no byte has moved for
\* idle_timeout_ms, although last_progress_ms is what the last tick made of it.
THEOREM SilenceIsOne == SafeSpec => IdleMeansSilence
<1>1. Inv => (TickIdle => clock.moved = Idle)
  <2> SUFFICES ASSUME Inv, TickIdle PROVE clock.moved = Idle
    OBVIOUS
  <2>1. /\ pc = "tick" /\ conn.phase \in {"SENDING", "RECEIVING"} /\ ~conn.progressed
        /\ clock.stamp = Idle
    BY DEF TickIdle, InTick, Silent
  <2>2. clock.stamp <= clock.moved /\ clock.moved \in 0 .. Idle
    BY <2>1 DEF Inv, Silence, TypeOK
  <2> QED BY <2>1, <2>2, Constants
<1>2. Inv => [TickIdle => clock.moved = Idle]_vars
  BY <1>1
<1> QED BY <1>2, Invariant, PTL DEF IdleMeansSilence

-----------------------------------------------------------------------------
(* The refinement of the one-shot request. *)

LEMMA ReportRefines ==
    ASSUME Inv, NEW c, NEW outcome, c.id = conn.id, conn.id # 0, Report(c, outcome)
    PROVE  C!Next
<1>1. conn.id \in Requests /\ starting \in BOOLEAN
  BY DEF Inv, TypeOK, Conns
<1>2. CASE starting
  <2>1. returned[conn.id] = "unused"
    BY <1>2 DEF Inv, Answers
  <2>2. returned' = [returned EXCEPT ![conn.id] = "refused"] /\ calls' = calls
    BY <1>2 DEF Report
  <2> QED BY <1>1, <2>1, <2>2 DEF C!Next, C!Refuse
<1>3. CASE ~starting
  <2>1. returned[conn.id] = "accepted" /\ calls[conn.id] = 0
    BY <1>3 DEF Inv, Answers
  <2>2. returned' = returned /\ calls' = [calls EXCEPT ![conn.id] = calls[conn.id] + 1]
    BY <1>3 DEF Report
  <2>3. calls' = [calls EXCEPT ![conn.id] = 1]
    BY <2>1, <2>2
  <2> QED BY <1>1, <2>1, <2>2, <2>3 DEF C!Next, C!Settle, C!Answer, C!Outstanding
<1> QED BY <1>1, <1>2, <1>3

LEMMA CompleteRefines ==
    ASSUME Inv, NEW c, NEW outcome, c.id = conn.id, conn.id # 0, fetch_complete(c, outcome)
    PROVE  C!Next
BY ReportRefines DEF fetch_complete

LEMMA LeaveRefines ==
    ASSUME Inv, conn.id # 0, Leave
    PROVE  [C!Next]_C!vars
<1>1. conn.id \in Requests /\ starting \in BOOLEAN
  BY DEF Inv, TypeOK, Conns
<1>2. CASE starting
  <2>1. returned[conn.id] = "unused" /\ \A q \in Requests : ~C!Outstanding(q)
    BY <1>2 DEF Inv, Answers, C!Outstanding
  <2>2. returned' = [returned EXCEPT ![conn.id] = "accepted"] /\ calls' = calls
    BY <1>2 DEF Leave
  <2> QED BY <1>1, <2>1, <2>2 DEF C!Next, C!Accept
<1>3. CASE ~starting
  BY <1>3 DEF Leave, C!vars
<1> QED BY <1>1, <1>2, <1>3

LEMMA CallerRefines ==
    ASSUME Inv, Caller
    PROVE  [C!Next]_C!vars
<1>1. CASE \E r \in Requests : StartRefused(r)
  BY <1>1 DEF StartRefused, Unused, C!Next, C!Refuse
<1>2. CASE \E r \in Requests : \E job \in Jobs : Start(r, job)
  BY <1>2 DEF Start, seen, C!vars
<1>3. CASE Cancel \/ Shutdown
  <2>1. Abandon /\ pc = "app"
    BY <1>3 DEF Cancel, Shutdown, App, InLoop
  <2>2. CASE conn.id = 0
    BY <2>1, <2>2 DEF Abandon, C!vars
  <2>3. CASE conn.id # 0
    <3>1. conn.id \in Requests /\ returned[conn.id] = "accepted" /\ calls[conn.id] = 0
      BY <2>1, <2>3 DEF Inv, TypeOK, Answers, Stack, Conns
    <3>2. returned' = [returned EXCEPT ![conn.id] = "cancelled"] /\ calls' = calls
      BY <2>1, <2>3 DEF Abandon
    <3> QED BY <3>1, <3>2 DEF C!Next, C!Settle, C!Cancel, C!Outstanding
  <2> QED BY <2>2, <2>3
<1>4. CASE CallbackReturns
  BY <1>4 DEF CallbackReturns, C!vars
<1> QED BY <1>1, <1>2, <1>3, <1>4 DEF Caller

LEMMA HopRefines ==
    ASSUME Inv, Hop
    PROVE  [C!Next]_C!vars
<1>1. CASE \E n \in 1 .. MaxAddresses : HopToAddresses(n)
  BY <1>1 DEF HopToAddresses, GoTo, C!vars
<1>2. CASE HopToName
  BY <1>2, LeaveRefines DEF HopToName, Inv, Places
<1>3. CASE HopFails
  BY <1>3, HoppingIs, CompleteRefines DEF HopFails, Inv, Places
<1>4. CASE \E n \in 0 .. MaxAddresses : Resolved(n)
  <2>1. PICK n \in 0 .. MaxAddresses : Resolved(n)
    BY <1>4
  <2>2. CASE n = 0
    BY <2>1, <2>2, CompleteRefines DEF Resolved
  <2>3. CASE n # 0
    BY <2>1, <2>3 DEF Resolved, GoTo, C!vars
  <2> QED BY <2>2, <2>3
<1>5. CASE TryFails
  BY <1>5 DEF TryFails, seen, C!vars
<1>6. CASE TryOpens
  BY <1>6, LeaveRefines DEF TryOpens, Inv, Places
<1>7. CASE TryEnds
  BY <1>7, CompleteRefines DEF TryEnds, Inv, Places
<1>8. CASE ConnectRefused
  BY <1>8 DEF ConnectRefused, TryAnother, GoTo, C!vars
<1>9. CASE Connected
  <2>1. conn.id # 0
    BY <1>9, NoConnIs DEF Connected, Inv, Holds
  <2>2. CASE fetch_complete(conn, "TLS")
    BY <2>1, <2>2, CompleteRefines
  <2>3. CASE ~fetch_complete(conn, "TLS")
    BY <1>9, <2>3 DEF Connected, GoTo, C!vars
  <2> QED BY <2>2, <2>3
<1> QED BY <1>1, <1>2, <1>3, <1>4, <1>5, <1>6, <1>7, <1>8, <1>9 DEF Hop

LEMMA FinishRefines ==
    ASSUME Inv, NEW c, c.id = conn.id, conn.id # 0, fetch_finish(c)
    PROVE  C!Next
BY CompleteRefines DEF fetch_finish

LEMMA FedToRefines ==
    ASSUME Inv, NEW c, c.id = conn.id, conn.id # 0, FedTo(c)
    PROVE  [C!Next]_C!vars
<1>1. CASE c.response.phase = "DONE"
  BY <1>1, FinishRefines DEF FedTo
<1>2. CASE c.response.phase # "DONE"
  BY <1>2 DEF FedTo, GoTo, C!vars
<1> QED BY <1>1, <1>2

LEMMA SessionRefines ==
    ASSUME Inv, Session
    PROVE  [C!Next]_C!vars
<1>1. CASE OnFd
  BY <1>1 DEF OnFd, GoTo, C!vars
<1>2. CASE (\E write \in BOOLEAN, more \in BOOLEAN : WouldBlock(write, more)) \/ BudgetSpent
  <2>1. Leave /\ pc \in {"handshake", "send", "receive"}
    BY <1>2 DEF WouldBlock, Working, BudgetSpent
  <2> QED BY <2>1, OnSession, LeaveRefines
<1>3. CASE HandshakeFails
  BY <1>3, OnSession, CompleteRefines DEF HandshakeFails
<1>4. CASE \E reply \in Replies : Handshaken(reply)
  BY <1>4 DEF Handshaken, GoTo, C!vars
<1>5. CASE SendSome \/ SendDone
  BY <1>5 DEF SendSome, SendDone, GoTo, C!vars
<1>6. CASE SendFails
  BY <1>6, OnSession, CompleteRefines DEF SendFails
<1>7. CASE ReadJunk
  BY <1>7, OnSession, FedIs, CompleteRefines DEF ReadJunk, Ends
<1>8. CASE ReadHead
  <2> DEFINE c == Fed(Unit)
             f == [c EXCEPT !.out_fd = TRUE]
  <2>1. pc = "receive"
    BY <1>8 DEF ReadHead, Reading
  <2>2. c.id = conn.id /\ f.id = conn.id /\ conn.id # 0
    BY <2>1, OnSession DEF Fed, Conns
  <2>3. \/ \E outcome \in Outcomes : Ends(c, outcome)
        \/ GoTo("hop") \/ FedTo(f) \/ fetch_finish(c) \/ FedTo(c)
    BY <1>8 DEF ReadHead, Outcomes
  <2> HIDE DEF c, f
  <2>4. CASE \E outcome \in Outcomes : Ends(c, outcome)
    BY <2>2, <2>4, CompleteRefines DEF Ends
  <2>5. CASE GoTo("hop")
    BY <2>5 DEF GoTo, C!vars
  <2> QED BY <2>2, <2>3, <2>4, <2>5, FedToRefines, FinishRefines
<1>9. CASE ReadByte
  <2> DEFINE c == [Fed(Unit) EXCEPT !.body = Append(@, IF Unit.kind = "byte" THEN Unit.n ELSE 0)]
  <2>1. pc = "receive"
    BY <1>9 DEF ReadByte, Reading
  <2>2. c.id = conn.id /\ conn.id # 0
    BY <2>1, OnSession DEF Fed, Conns
  <2>3. Ends(conn, "TOO_LARGE") \/ Ends(c, "FILE") \/ FedTo(c)
    BY <1>9 DEF ReadByte
  <2> HIDE DEF c
  <2> QED BY <2>2, <2>3, FedToRefines, CompleteRefines DEF Ends
<1>10. CASE ReadFraming
  <2>1. pc = "receive" /\ FedTo(Fed(Unit))
    BY <1>10 DEF ReadFraming, Reading
  <2>2. Fed(Unit).id = conn.id /\ conn.id # 0
    BY <2>1, OnSession DEF Fed, Conns
  <2> QED BY <2>1, <2>2, FedToRefines
<1>11. CASE \E clean \in BOOLEAN : ReadCloses(clean)
  <2>1. pc = "receive" /\ (Ends(conn, "NETWORK") \/ fetch_finish(conn))
    BY <1>11 DEF ReadCloses, fetch_on_close
  <2> QED BY <2>1, OnSession, CompleteRefines, FinishRefines DEF Ends
<1> QED BY <1>1, <1>2, <1>3, <1>4, <1>5, <1>6, <1>7, <1>8, <1>9, <1>10, <1>11 DEF Session

LEMMA TicksRefine ==
    ASSUME Inv, Ticks \/ Clock
    PROVE  [C!Next]_C!vars
<1>1. CASE Tick \/ ResolveTickQuiet \/ TickIdleFetch \/ Clock
  BY <1>1 DEF Tick, ResolveTickQuiet, TickIdleFetch, Clock, seen, C!vars
<1>2. CASE TickDeadline \/ TickIdle
  BY <1>2, CompleteRefines DEF TickDeadline, TickIdle, InTick
<1>3. CASE TickAttempt \/ TickEnds
  BY <1>3 DEF TickAttempt, TryAnother, TickEnds, GoTo, C!vars
<1> QED BY <1>1, <1>2, <1>3 DEF Ticks

\* inkwell_fetch_start() returns 0 or an error; on 0 the callback runs exactly once
\* unless the request is cancelled first, on an error never, even when the next
\* request is started from a callback: the safety half of Completes.
THEOREM Implements == SafeSpec => C!SafeSpec
<1>1. Init => C!Init
  BY DEF Init, C!Init
<1>2. Inv /\ [Next \/ Done]_vars => [C!Next]_C!vars
  <2>1. UNCHANGED vars => UNCHANGED C!vars
    BY DEF vars, seen, C!vars
  <2> QED BY <2>1, CallerRefines, HopRefines, SessionRefines, TicksRefine DEF Next, Done
<1> QED BY <1>1, <1>2, Invariant, PTL DEF SafeSpec, C!SafeSpec
=============================================================================
