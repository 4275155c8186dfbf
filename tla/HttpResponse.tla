---------------------------- MODULE HttpResponse ----------------------------
(***************************************************************************)
(* The response side of the HTTP codec, src/codec/http.c: what each piece  *)
(* of a reply does to `struct inkwell_http_response`.                      *)
(*                                                                         *)
(* A reply arrives as units, the pieces after which the codec's state is   *)
(* a different one: a whole head, one byte of body, a chunk-size line, the *)
(* end of a chunk, the trailer with its empty line, or a line it refuses.  *)
(* How the bytes of one unit are spread over reads makes no difference to  *)
(* a codec that takes them one by one.                                     *)
(***************************************************************************)
EXTENDS Integers, Sequences

NoLength == 0 - 1               \* a head without a Content-Length

\* What inkwell_http_url_resolve() makes of the Location of a head: an https URL,
\* or nothing that may be followed.
Locations == {"none", "refused", "https"}

\* `status` 0 is a head that is not in yet; `chunked` and `length` are what the
\* lines of the head said.
HeadUnit(status, chunked, length, location) ==
    [kind |-> "head", status |-> status, chunked |-> chunked,
     length |-> length, location |-> location]

ByteUnit(i) == [kind |-> "byte", n |-> i]
SizeUnit(n) == [kind |-> "size", n |-> n]
EolUnit     == [kind |-> "eol"]
TrailerUnit == [kind |-> "trailer"]
JunkUnit    == [kind |-> "junk"]

Responses(statuses) ==
    [phase : {"HEAD", "LENGTH", "CHUNK_SIZE", "CHUNK_DATA", "CHUNK_END", "TRAILER",
              "UNTIL_CLOSE", "DONE", "FAILED"},
     status : statuses \cup {0},
     location : Locations,
     framing : {"NONE", "LENGTH", "CHUNKED", "UNTIL_CLOSE"},
     remaining : Nat,
     head_request : BOOLEAN]

response_init(head_request) ==
    [phase |-> "HEAD", status |-> 0, location |-> "none", framing |-> "NONE",
     remaining |-> 0, head_request |-> head_request]

http_fail(r) == [r EXCEPT !.phase = "FAILED"]

head_done(r) == r.status # 0

\* The framing a final head asks for, and the phase that reads it.
Framed(r, h, framing, phase, remaining) ==
    [r EXCEPT !.status = h.status, !.location = h.location,
              !.framing = framing, !.phase = phase, !.remaining = remaining]

\* An interim head is forgotten, and a 101 was never asked for.
http_parse_head(r, h) ==
    IF h.status = 101 THEN http_fail(r)
    ELSE IF h.status < 200 THEN r
    ELSE IF r.head_request \/ h.status \in {204, 304} THEN Framed(r, h, "NONE", "DONE", 0)
    ELSE IF h.chunked THEN Framed(r, h, "CHUNKED", "CHUNK_SIZE", 0)
    ELSE IF h.length = NoLength THEN Framed(r, h, "UNTIL_CLOSE", "UNTIL_CLOSE", 0)
    ELSE Framed(r, h, "LENGTH", IF h.length = 0 THEN "DONE" ELSE "LENGTH", h.length)

http_chunk_size(r, n) ==
    IF n = 0 THEN [r EXCEPT !.phase = "TRAILER"]
    ELSE [r EXCEPT !.phase = "CHUNK_DATA", !.remaining = n]

\* The codec hands the next byte to its caller, whatever that byte is.
InBody(r) == r.phase \in {"LENGTH", "CHUNK_DATA", "UNTIL_CLOSE"}

TakeBody(r) ==
    IF r.phase = "UNTIL_CLOSE" THEN r
    ELSE [r EXCEPT !.remaining = @ - 1,
                   !.phase = IF r.remaining > 1 THEN @
                             ELSE IF @ = "LENGTH" THEN "DONE" ELSE "CHUNK_END"]

\* inkwell_http_response_feed() for one unit.
response_feed(r, u) ==
    CASE InBody(r) -> TakeBody(r)
      [] r.phase = "HEAD" /\ u.kind = "head" -> http_parse_head(r, u)
      [] r.phase = "CHUNK_SIZE" /\ u.kind = "size" -> http_chunk_size(r, u.n)
      [] r.phase = "CHUNK_END" /\ u.kind = "eol" -> [r EXCEPT !.phase = "CHUNK_SIZE"]
      [] r.phase = "TRAILER" /\ u.kind = "trailer" -> [r EXCEPT !.phase = "DONE"]
      [] r.phase \in {"DONE", "FAILED"} -> r
      [] OTHER -> http_fail(r)

\* inkwell_http_response_finish(): is the end of the connection an end?
response_finish(r) == r.phase \in {"DONE", "UNTIL_CLOSE"}
=============================================================================
