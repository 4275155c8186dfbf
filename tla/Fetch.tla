-------------------------------- MODULE Fetch --------------------------------
(***************************************************************************)
(* The HTTPS client, src/net/fetch.c: one request at a time, through       *)
(* lookups, addresses, a TLS session, redirects and a framed reply, with a *)
(* deadline for the whole, one for each connect and one for silence.       *)
(*                                                                         *)
(* The resolver is the one of module Resolve: at most one lookup, which    *)
(* calls back once, from the loop or from its tick, unless it is           *)
(* cancelled.  The session is Mbed TLS by what src/net/tls.c makes of it:  *)
(* done, blocked on a direction, or over.  The reply is read by the codec  *)
(* of module HttpResponse.  Callbacks run inside the functions below, and  *)
(* may start the next request.                                             *)
(***************************************************************************)
EXTENDS HttpResponse

CONSTANTS
    Requests,       \* the requests the caller makes
    Jobs,           \* what they may ask for
    Replies,        \* what servers may answer
    MaxAddresses,   \* INKWELL_RESOLVE_ADDRESSES_MAX
    MaxRedirects,   \* INKWELL_FETCH_REDIRECTS_MAX
    ReadsPerTurn,   \* FETCH_READS_PER_TURN
    Idle            \* idle_timeout_ms, in steps of the clock

ASSUME FetchRequestsAssumption == Requests \subseteq Nat \ {0}
ASSUME JobsAssumption ==
    Jobs \subseteq [method : {"GET", "HEAD", "POST"}, ranged : BOOLEAN, file : BOOLEAN,
                    cap : Nat, idle : BOOLEAN, upload : Nat]
ASSUME RepliesAssumption ==
    Replies \subseteq [status : 200 .. 999, coding : {"length", "chunked", "both", "close"},
                       length : Nat, location : Locations, interim : BOOLEAN]
ASSUME LimitsAssumption ==
    MaxAddresses \in Nat \ {0} /\ MaxRedirects \in Nat /\ ReadsPerTurn \in Nat \ {0}
ASSUME IdleAssumption == Idle \in Nat \ {0}

VARIABLES
    conn,           \* *fetch->conn; NoConn for NULL
    lookup,         \* fetch->resolve has a lookup in flight
    held,           \* how many sockets and output files the process has open
    wants_write,    \* conn->tls.wants_write
    server,         \* the reply of the server at the far end, and what is left of it
    clock,          \* the ages that idle_timeout_ms is about
    pc,             \* where the thread is
    reads,          \* `i` of fetch_receive()
    starting,       \* fetch_start() is on the stack
    nested,         \* a callback of the application is on the stack
    ticking,        \* inkwell_resolve_tick() is on the stack, under fetch_tick()
    returned,       \* what start() and cancel() have returned for each request
    calls,          \* how often each callback has run
    result,         \* what the callback on the stack was told
    reached         \* on how many connections bytes of the request went out

flow == <<pc, reads, starting, nested, ticking>>
seen == <<returned, calls, result, reached>>
vars == <<conn, lookup, held, wants_write, server, clock, flow, seen>>

Outcomes == {"OK", "HTTP_STATUS", "TOO_LARGE", "NETWORK", "TLS", "PROTOCOL", "FILE", "TIMED_OUT"}

-----------------------------------------------------------------------------
(* The server. *)

\* A reply as the codec meets it; the body of a chunked one in chunks of a byte.
\* A head that says both has a Content-Length that is not the body's.
Reply(s, head_request) ==
    LET said == HeadUnit(s.status, s.coding \in {"chunked", "both"},
                         IF s.coding = "length" THEN s.length
                         ELSE IF s.coding = "both" THEN 0 ELSE NoLength, s.location)
        chunk(i) == IF i = 3 * s.length + 1 THEN SizeUnit(0)
                    ELSE IF i = 3 * s.length + 2 THEN TrailerUnit
                    ELSE IF i % 3 = 1 THEN SizeUnit(1)
                    ELSE IF i % 3 = 2 THEN ByteUnit((i + 1) \div 3) ELSE EolUnit
        body == IF head_request \/ s.status \in {204, 304} THEN <<>>
                ELSE IF s.coding \in {"chunked", "both"}
                     THEN [i \in 1 .. 3 * s.length + 2 |-> chunk(i)]
                     ELSE [i \in 1 .. s.length |-> ByteUnit(i)]
    IN  (IF s.interim THEN <<HeadUnit(103, FALSE, NoLength, "none")>> ELSE <<>>)
          \o <<said>> \o body

\* The body the server means to send.
Meant(s, head_request) ==
    IF head_request \/ s.status \in {204, 304} THEN <<>> ELSE [i \in 1 .. s.length |-> i]

-----------------------------------------------------------------------------
(* The connection. *)

NoJob  == [method |-> "GET", ranged |-> FALSE, file |-> FALSE, cap |-> 0,
           idle |-> FALSE, upload |-> 0]

NoConn ==
    [id |-> 0, job |-> NoJob, phase |-> "RESOLVING", redirects |-> 0, addresses |-> 0,
     socket |-> FALSE, armed |-> "none", more_to_read |-> FALSE, unsent |-> 0,
     response |-> response_init(FALSE), body |-> <<>>, out_fd |-> FALSE,
     progressed |-> FALSE, detail |-> FALSE]

NoServer == [reply |-> [status |-> 200, coding |-> "close", length |-> 0,
                        location |-> "none", interim |-> FALSE],
             left |-> <<>>]

NoResult == [outcome |-> "none", body |-> <<>>, meant |-> <<>>, detail |-> FALSE]

\* How long ago the last tick, the last movement of the hop and last_progress_ms
\* were, up to Idle, from where on they are all the same.
NewClock == [tick |-> 0, moved |-> Idle, stamp |-> Idle]

Statuses == {s.status : s \in Replies}

Conns ==
    [id : Requests \cup {0}, job : Jobs \cup {NoJob},
     phase : {"RESOLVING", "CONNECTING", "HANDSHAKE", "SENDING", "RECEIVING"},
     redirects : 0 .. MaxRedirects, addresses : 0 .. MaxAddresses,
     socket : BOOLEAN, armed : {"none", "IN", "OUT", "BOTH", "refused"},
     more_to_read : BOOLEAN, unsent : Nat,
     response : Responses(Statuses), body : Seq(Nat),
     out_fd : BOOLEAN, progressed : BOOLEAN, detail : BOOLEAN]

\* The request in flight, the deadlines, the thread and what the caller saw.
TypeOK ==
    /\ conn \in Conns
    /\ conn.job.cap > 0 => Len(conn.body) <= conn.job.cap
    /\ lookup \in BOOLEAN /\ wants_write \in BOOLEAN
    /\ held \in [sockets : Nat, files : Nat]
    /\ server.reply \in Replies \cup {NoServer.reply}
    /\ clock \in [tick : 0 .. Idle, moved : 0 .. Idle, stamp : 0 .. Idle]
    /\ pc \in {"app", "hop", "try", "handshake", "send", "receive", "resolve_tick", "tick", "down"}
    /\ reads \in 0 .. ReadsPerTurn
    /\ starting \in BOOLEAN /\ nested \in BOOLEAN /\ ticking \in BOOLEAN
    /\ returned \in [Requests -> {"unused", "refused", "accepted", "cancelled"}]
    /\ calls \in [Requests -> Nat] /\ reached \in Nat
    /\ result.outcome \in Outcomes \cup {"none"}

Init ==
    /\ conn = NoConn /\ lookup = FALSE /\ wants_write = FALSE
    /\ held = [sockets |-> 0, files |-> 0]
    /\ server = NoServer /\ clock = NewClock
    /\ pc = "app" /\ reads = 0
    /\ starting = FALSE /\ nested = FALSE /\ ticking = FALSE
    /\ returned = [r \in Requests |-> "unused"]
    /\ calls = [r \in Requests |-> 0] /\ reached = 0 /\ result = NoResult

-----------------------------------------------------------------------------
(* The ends of a request. *)

IsHead == conn.job.method = "HEAD"

Count(open) == IF open THEN 1 ELSE 0

\* fetch_drop_socket(), but for the loop and the kernel (Closed).
Dropped(c) == [c EXCEPT !.socket = FALSE, !.armed = "none", !.more_to_read = FALSE]

\* What the process has open once the sockets and files given are closed.
Closed(sockets, files) ==
    [sockets |-> held.sockets - Count(sockets), files |-> held.files - Count(files)]

\* Where a handler returns to.
Home == IF ticking /\ ~nested THEN "tick" ELSE "app"

\* A handler returns with the request in flight, and start() with it.
Leave ==
    /\ pc' = Home
    /\ starting' = FALSE
    /\ returned' = IF starting THEN [returned EXCEPT ![conn.id] = "accepted"] ELSE returned
    /\ UNCHANGED <<nested, calls, result>>

\* A handler goes on at another place.
GoTo(place) ==
    /\ pc' = place
    /\ UNCHANGED <<starting, nested, returned, calls, result>>

\* What on_done is told of c.
ResultOf(c, outcome) ==
    [outcome |-> outcome,
     body |-> IF outcome = "OK" \/ c.job.file THEN c.body ELSE <<>>,
     meant |-> Meant(server.reply, c.job.method = "HEAD"),
     detail |-> outcome # "OK" \/ c.detail]

\* on_done, or the error start() returns while it still holds on_done back.
Report(c, outcome) ==
    /\ starting' = FALSE
    /\ IF starting
       THEN /\ returned' = [returned EXCEPT ![c.id] = "refused"]
            /\ pc' = Home
            /\ UNCHANGED <<nested, calls, result>>
       ELSE /\ calls' = [calls EXCEPT ![c.id] = @ + 1]
            /\ result' = ResultOf(c, outcome)
            /\ nested' = TRUE
            /\ pc' = "app"
            /\ UNCHANGED returned

fetch_complete(c, outcome) ==
    /\ conn' = NoConn
    /\ lookup' = FALSE
    /\ held' = Closed(c.socket, c.out_fd)
    /\ server' = NoServer /\ clock' = NewClock /\ wants_write' = FALSE
    /\ reads' = 0 /\ reached' = 0
    /\ Report(c, outcome)

\* fetch_finish(): a HEAD's head may not fit, and a file may not close.
fetch_finish(c) ==
    \E outcome \in {"OK"} \cup (IF IsHead THEN {"TOO_LARGE"} ELSE {})
                          \cup (IF c.out_fd THEN {"FILE"} ELSE {}) :
        fetch_complete(c, outcome)

-----------------------------------------------------------------------------
(* The application. *)

\* The application has the thread, in its own code or in a callback.
App == pc = "app"

\* The loop has it.
InLoop == pc = "app" /\ ~nested

\* The requests are numbered in the order in which they are made.
Unused(r) ==
    /\ returned[r] = "unused"
    /\ \A q \in Requests : q < r => returned[q] # "unused"

\* A request is in flight, or this one is not a request: -EBUSY, -EINVAL.
StartRefused(r) ==
    /\ App /\ Unused(r)
    /\ returned' = [returned EXCEPT ![r] = "refused"]
    /\ UNCHANGED <<conn, lookup, held, wants_write, server, clock, flow, calls, result, reached>>

\* Mutant: on_done is not held back while start() is under way.
Start_with_on_done(r, job) ==
    /\ App /\ Unused(r) /\ conn = NoConn
    /\ conn' = [NoConn EXCEPT !.id = r, !.job = job]
    /\ clock' = NewClock
    /\ pc' = "hop" /\ starting' = FALSE
    /\ UNCHANGED <<lookup, held, wants_write, server, reads, nested, ticking, seen>>

Start(r, job) ==
    /\ App /\ Unused(r) /\ conn = NoConn
    /\ conn' = [NoConn EXCEPT !.id = r, !.job = job]
    /\ clock' = NewClock
    /\ pc' = "hop" /\ starting' = TRUE
    /\ UNCHANGED <<lookup, held, wants_write, server, reads, nested, ticking, seen>>

\* inkwell_fetch_cancel(), also as the first half of shutdown().
Abandon ==
    /\ conn' = NoConn
    /\ lookup' = FALSE
    /\ held' = Closed(conn.socket, conn.out_fd)
    /\ server' = NoServer /\ clock' = NewClock /\ wants_write' = FALSE /\ reached' = 0
    /\ returned' = IF conn.id = 0 THEN returned ELSE [returned EXCEPT ![conn.id] = "cancelled"]
    /\ UNCHANGED <<calls, result>>

Cancel == App /\ conn.id # 0 /\ Abandon /\ UNCHANGED flow

Shutdown ==
    /\ InLoop /\ Abandon
    /\ pc' = "down"
    /\ UNCHANGED <<reads, starting, nested, ticking>>

\* The callback returns into fetch_complete(), and that into its caller.
CallbackReturns ==
    /\ App /\ nested
    /\ nested' = FALSE
    /\ pc' = IF ticking THEN "tick" ELSE "app"
    /\ result' = NoResult
    /\ UNCHANGED <<conn, lookup, held, wants_write, server, clock, reads, starting, ticking,
                   returned, calls, reached>>

-----------------------------------------------------------------------------
(* A hop: the address, by way of a lookup for a name, and the connect. *)

Hopping == [conn EXCEPT !.phase = "RESOLVING", !.addresses = 0,
                        !.response = response_init(IsHead)]

\* A literal, or the list of inkwell_fetch_connect_to().
HopToAddresses(n) ==
    /\ pc = "hop"
    /\ conn' = [Hopping EXCEPT !.addresses = n]
    /\ GoTo("try")
    /\ UNCHANGED <<lookup, held, wants_write, server, clock, reads, ticking, reached>>

HopToName ==
    /\ pc = "hop"
    /\ conn' = Hopping
    /\ lookup' = TRUE
    /\ Leave
    /\ UNCHANGED <<held, wants_write, server, clock, reads, ticking, reached>>

HopFails == pc = "hop" /\ fetch_complete(Hopping, "NETWORK") /\ UNCHANGED ticking

\* fetch_on_resolved(), from the loop or from the resolver's tick.  Which of the
\* addresses comes first (fetch_prefer_family()) makes no difference here.
Resolved(n) ==
    /\ InLoop \/ pc = "resolve_tick"
    /\ lookup /\ conn.id # 0 /\ conn.phase = "RESOLVING"
    /\ IF n = 0
       THEN fetch_complete(conn, "NETWORK") /\ UNCHANGED ticking
       ELSE /\ lookup' = FALSE
            /\ conn' = [conn EXCEPT !.addresses = n]
            /\ GoTo("try")
            /\ UNCHANGED <<held, wants_write, server, clock, reads, ticking, reached>>

\* fetch_open() fails: no socket, no room on the loop, or refused at once.
TryFails ==
    /\ pc = "try" /\ conn.addresses > 0
    /\ conn' = [conn EXCEPT !.addresses = @ - 1, !.detail = TRUE]
    /\ UNCHANGED <<lookup, held, wants_write, server, clock, flow, seen>>

TryOpens ==
    /\ pc = "try" /\ conn.addresses > 0
    /\ conn' = [conn EXCEPT !.addresses = @ - 1, !.socket = TRUE, !.armed = "BOTH",
                            !.phase = "CONNECTING"]
    /\ held' = [held EXCEPT !.sockets = @ + 1]
    /\ Leave
    /\ UNCHANGED <<lookup, wants_write, server, clock, reads, ticking, reached>>

TryEnds ==
    /\ pc = "try" /\ conn.addresses = 0
    /\ fetch_complete(conn, "NETWORK")
    /\ UNCHANGED ticking

\* An address that refused, or did not answer in time, gives way to the next.
TryAnother ==
    /\ conn' = [Dropped(conn) EXCEPT !.detail = TRUE]
    /\ held' = Closed(conn.socket, FALSE)
    /\ GoTo("try")
    /\ UNCHANGED <<lookup, wants_write, server, clock, reads, reached>>

\* fetch_connected().  The addresses left are not tried after a connect.
ConnectRefused ==
    /\ InLoop /\ conn.socket /\ conn.phase = "CONNECTING"
    /\ TryAnother
    /\ UNCHANGED ticking

Connected ==
    /\ InLoop /\ conn.socket /\ conn.phase = "CONNECTING"
    /\ \/ fetch_complete(conn, "TLS") /\ UNCHANGED ticking
       \/ /\ conn' = [conn EXCEPT !.phase = "HANDSHAKE", !.addresses = 0]
          /\ GoTo("handshake")
          /\ UNCHANGED <<lookup, held, wants_write, server, clock, reads, ticking, reached>>

-----------------------------------------------------------------------------
(* The session. *)

\* fetch_on_fd() once connected.
OnFd ==
    /\ InLoop /\ conn.socket /\ conn.phase # "CONNECTING"
    /\ reads' = 0
    /\ conn' = [conn EXCEPT !.more_to_read = @ /\ conn.phase # "RECEIVING"]
    /\ GoTo([HANDSHAKE |-> "handshake", SENDING |-> "send", RECEIVING |-> "receive"][conn.phase])
    /\ UNCHANGED <<lookup, held, wants_write, server, clock, ticking, reached>>

\* The session can be asked for more.
Working ==
    \/ pc = "handshake"
    \/ pc = "send" /\ conn.unsent > 0
    \/ pc = "receive" /\ reads < ReadsPerTurn

\* Mutant: the direction is that of the phase, not the session's.
fetch_arm_by_phase(write) == {IF pc = "send" THEN "OUT" ELSE "IN"}

\* What the loop waits for afterwards: what it is asked to, or what it did before
\* when it refuses the change, which goes unnoticed.
fetch_arm(write) == {IF write THEN "OUT" ELSE "IN", "refused"}

\* -EAGAIN; `more` is a run of session tickets that was cut short.
WouldBlock(write, more) ==
    /\ Working
    /\ more => pc = "receive" /\ ~write
    /\ wants_write' = write
    /\ \E armed \in fetch_arm(write) :
          conn' = [conn EXCEPT !.armed = armed, !.more_to_read = more]
    /\ Leave
    /\ reads' = 0
    /\ UNCHANGED <<lookup, held, server, clock, ticking, reached>>

\* The handshake fails, or the request it would send does not fit its buffer.
HandshakeFails ==
    /\ pc = "handshake"
    /\ \E outcome \in {"TLS", "PROTOCOL"} : fetch_complete(conn, outcome)
    /\ UNCHANGED ticking

Handshaken(reply) ==
    /\ pc = "handshake"
    /\ conn' = [conn EXCEPT !.phase = "SENDING", !.unsent = 1 + conn.job.upload,
                            !.response = response_init(IsHead), !.progressed = TRUE]
    /\ clock' = [clock EXCEPT !.stamp = clock.tick, !.moved = 0]
    /\ server' = [reply |-> reply, left |-> Reply(reply, IsHead)]
    /\ wants_write' = FALSE
    /\ GoTo("send")
    /\ UNCHANGED <<lookup, held, reads, ticking, reached>>

\* A write goes through: the head of the request, then what it uploads.
SendSome ==
    /\ pc = "send" /\ conn.unsent > 0
    /\ conn' = [conn EXCEPT !.unsent = @ - 1, !.progressed = TRUE]
    /\ reached' = IF conn.unsent = 1 + conn.job.upload
                  THEN reached + 1 ELSE reached
    /\ clock' = [clock EXCEPT !.moved = 0]
    /\ wants_write' = FALSE
    /\ UNCHANGED <<lookup, held, server, flow, returned, calls, result>>

SendFails ==
    /\ pc = "send" /\ conn.unsent > 0
    /\ fetch_complete(conn, "NETWORK")
    /\ UNCHANGED ticking

SendDone ==
    /\ pc = "send" /\ conn.unsent = 0
    /\ conn' = [conn EXCEPT !.phase = "RECEIVING", !.more_to_read = FALSE]
    /\ reads' = 0
    /\ GoTo("receive")
    /\ UNCHANGED <<lookup, held, wants_write, server, clock, ticking, reached>>

-----------------------------------------------------------------------------
(* The reply. *)

Redirects == {301, 302, 303, 307, 308}

\* fetch_on_head(): what the rest of the reply is for.
fetch_on_head(c) ==
    LET r == c.response
    IN  IF c.job.method = "POST" /\ r.status \in 300 .. 399 THEN "PROTOCOL"
        ELSE IF r.status \in Redirects
        THEN IF r.location = "none" THEN "HTTP_STATUS"
             ELSE IF c.redirects >= MaxRedirects \/ r.location # "https" THEN "PROTOCOL"
             ELSE "hop"
        ELSE IF r.status \notin 200 .. 299 THEN "HTTP_STATUS"
        ELSE IF c.job.ranged /\ r.status # 206 THEN "PROTOCOL"
        ELSE "body"

\* fetch_feed() has dealt with a unit: the reply is whole, or the loop goes on.
FedTo(c) ==
    IF c.response.phase = "DONE"
    THEN fetch_finish(c) /\ UNCHANGED ticking
    ELSE /\ conn' = c
         /\ reads' = reads + 1
         /\ clock' = [clock EXCEPT !.moved = 0]
         /\ wants_write' = FALSE
         /\ server' = [server EXCEPT !.left = Tail(@)]
         /\ GoTo("receive")
         /\ UNCHANGED <<lookup, ticking, reached>>

Ends(c, outcome) == fetch_complete(c, outcome) /\ UNCHANGED ticking

\* A read brings the next unit of the reply.
Reading == pc = "receive" /\ reads < ReadsPerTurn /\ server.left # <<>>

\* Mutant: a byte that arrives is no movement.
Fed_unnoticed(u) == [conn EXCEPT !.response = response_feed(conn.response, u)]

\* The connection once the codec has had unit u.
Fed(u) == [conn EXCEPT !.progressed = TRUE, !.response = response_feed(conn.response, u)]

Unit == Head(server.left)

\* The codec refuses what it is given.
ReadJunk ==
    /\ pc = "receive" /\ reads < ReadsPerTurn /\ ~InBody(conn.response)
    /\ Ends(Fed(JunkUnit), "PROTOCOL")

\* The final head is in.
ReadHead ==
    /\ Reading
    /\ ~head_done(conn.response) /\ head_done(Fed(Unit).response)
    /\ LET c == Fed(Unit)
           verdict == fetch_on_head(c)
       IN  \/ verdict \in Outcomes /\ Ends(c, verdict)
           \/ /\ verdict = "hop"
              /\ conn' = [Dropped(c) EXCEPT !.redirects = @ + 1]
              /\ held' = Closed(TRUE, FALSE)
              /\ server' = NoServer /\ wants_write' = FALSE /\ reads' = 0
              /\ clock' = [NewClock EXCEPT !.tick = clock.tick]
              /\ GoTo("hop")
              /\ UNCHANGED <<lookup, ticking, reached>>
           \/ /\ verdict = "body"
              /\ IF c.job.file /\ c.job.method = "GET"
                 THEN \/ Ends(c, "FILE")
                      \/ /\ c.response.phase # "DONE"
                         /\ held' = [held EXCEPT !.files = @ + 1]
                         /\ FedTo([c EXCEPT !.out_fd = TRUE])
                      \/ /\ c.response.phase = "DONE"
                         /\ fetch_finish(c) /\ UNCHANGED ticking
                 ELSE FedTo(c) /\ (c.response.phase # "DONE" => UNCHANGED held)

\* A byte more would pass response_max, or output_max.
Full(c) == c.job.cap > 0 /\ Len(c.body) >= c.job.cap

\* A byte of body: to the file or to memory, within the cap and if the capture
\* can grow.
ReadByte ==
    /\ Reading /\ InBody(conn.response)
    /\ LET c == [Fed(Unit) EXCEPT !.body = Append(@, IF Unit.kind = "byte" THEN Unit.n ELSE 0)]
       IN  \/ (Full(conn) \/ ~conn.out_fd) /\ Ends(conn, "TOO_LARGE")
           \/ ~Full(conn) /\ conn.out_fd /\ Ends(c, "FILE")
           \/ ~Full(conn) /\ FedTo(c) /\ (c.response.phase # "DONE" => UNCHANGED held)

\* An interim head, or the framing of a chunk.
ReadFraming ==
    /\ Reading /\ ~InBody(conn.response)
    /\ head_done(conn.response) \/ ~head_done(Fed(Unit).response)
    /\ FedTo(Fed(Unit)) /\ (Fed(Unit).response.phase # "DONE" => UNCHANGED held)

\* Mutant: the end of the connection ends the body, close_notify or not.
fetch_on_close_trusting(clean) ==
    IF ~head_done(conn.response) \/ ~response_finish(conn.response)
    THEN Ends(conn, "NETWORK")
    ELSE fetch_finish(conn) /\ UNCHANGED ticking

\* fetch_on_close(), after a close_notify or without one.
fetch_on_close(clean) ==
    IF \/ ~head_done(conn.response)
       \/ conn.response.framing = "UNTIL_CLOSE" /\ ~clean
       \/ ~response_finish(conn.response)
    THEN Ends(conn, "NETWORK")
    ELSE fetch_finish(conn) /\ UNCHANGED ticking

\* A server closes properly once its reply is out, and sooner only if the reply
\* says how long it is.
ReadCloses(clean) ==
    /\ pc = "receive" /\ reads < ReadsPerTurn
    /\ clean => server.left = <<>> \/ server.reply.coding # "close"
    /\ fetch_on_close(clean)

BudgetSpent ==
    /\ pc = "receive" /\ reads = ReadsPerTurn
    /\ \E armed \in fetch_arm(FALSE) : conn' = [conn EXCEPT !.armed = armed]
    /\ Leave
    /\ reads' = 0
    /\ UNCHANGED <<lookup, held, wants_write, server, clock, ticking, reached>>

-----------------------------------------------------------------------------
(* The tick and the clock. *)

\* inkwell_fetch_tick(), up to the resolver's.
Tick ==
    /\ InLoop
    /\ clock' = [clock EXCEPT !.tick = 0]
    /\ pc' = (IF lookup THEN "resolve_tick" ELSE "tick") /\ ticking' = TRUE
    /\ UNCHANGED <<conn, lookup, held, wants_write, server, reads, starting, nested, seen>>

ResolveTickQuiet ==
    /\ pc = "resolve_tick"
    /\ pc' = "tick"
    /\ UNCHANGED <<conn, lookup, held, wants_write, server, clock, reads, starting, nested,
                   ticking, seen>>

InTick == pc = "tick" /\ conn.id # 0 /\ ticking' = FALSE

\* The deadline is over.  It is looked at here only, so the tick that finds it so
\* may be any.
TickDeadline ==
    /\ InTick
    /\ fetch_complete(conn, "TIMED_OUT")

\* No byte for idle_timeout_ms, by the stamps the ticks have made.
Silent ==
    /\ conn.job.idle /\ conn.phase \in {"SENDING", "RECEIVING"}
    /\ ~conn.progressed /\ clock.stamp = Idle

TickIdle ==
    /\ InTick /\ Silent
    /\ fetch_complete(conn, "TIMED_OUT")

\* The connect's own deadline is over, which is looked at here only as well.
TickAttempt ==
    /\ InTick /\ conn.phase = "CONNECTING"
    /\ TryAnother

\* The rest of the tick: the stamp, and a read that was cut short.
TickEnds ==
    /\ InTick /\ ~Silent
    /\ conn' = [conn EXCEPT !.progressed = FALSE, !.more_to_read = FALSE]
    /\ clock' = IF conn.progressed THEN [clock EXCEPT !.stamp = 0] ELSE clock
    /\ reads' = 0
    /\ GoTo(IF conn.more_to_read /\ conn.phase = "RECEIVING" THEN "receive" ELSE "app")
    /\ UNCHANGED <<lookup, held, wants_write, server, reached>>

TickIdleFetch ==
    /\ pc = "tick" /\ conn.id = 0
    /\ ticking' = FALSE /\ pc' = "app"
    /\ UNCHANGED <<conn, lookup, held, wants_write, server, clock, reads, starting, nested, seen>>

Older(age) == IF age = Idle THEN age ELSE age + 1

\* Time passes while the loop waits; it is kept for a request with an idle timeout.
Clock ==
    /\ InLoop /\ conn.job.idle
    /\ clock' = [tick |-> Older(clock.tick), moved |-> Older(clock.moved),
                 stamp |-> Older(clock.stamp)]
    /\ UNCHANGED <<conn, lookup, held, wants_write, server, flow, seen>>

-----------------------------------------------------------------------------
Caller ==
    \/ \E r \in Requests : StartRefused(r) \/ \E job \in Jobs : Start(r, job)
    \/ Cancel \/ Shutdown \/ CallbackReturns

Hop ==
    \/ \E n \in 1 .. MaxAddresses : HopToAddresses(n)
    \/ HopToName \/ HopFails
    \/ \E n \in 0 .. MaxAddresses : Resolved(n)
    \/ TryFails \/ TryOpens \/ TryEnds \/ ConnectRefused \/ Connected

Session ==
    \/ OnFd
    \/ \E write \in BOOLEAN, more \in BOOLEAN : WouldBlock(write, more)
    \/ HandshakeFails \/ \E reply \in Replies : Handshaken(reply)
    \/ SendSome \/ SendFails \/ SendDone
    \/ ReadJunk \/ ReadHead \/ ReadByte \/ ReadFraming \/ BudgetSpent
    \/ \E clean \in BOOLEAN : ReadCloses(clean)

Ticks ==
    \/ Tick \/ ResolveTickQuiet
    \/ TickDeadline \/ TickIdle \/ TickAttempt \/ TickEnds \/ TickIdleFetch

Next == Caller \/ Hop \/ Session \/ Ticks \/ Clock

\* Once the fetcher is shut down nothing more happens to it.
Done == pc = "down" /\ UNCHANGED vars

SafeSpec == Init /\ [][Next \/ Done]_vars

\* The application keeps calling the tick and returns from its callbacks, every
\* call returns, and time passes.  Nothing is assumed of the network or of the
\* resolver.
Fairness ==
    /\ WF_vars(CallbackReturns)
    /\ WF_vars(pc \in {"hop", "try"} /\ Hop)
    /\ WF_vars(pc \in {"handshake", "send", "receive"} /\ Session)
    /\ SF_vars(Tick)
    /\ WF_vars(pc \in {"resolve_tick", "tick"} /\ (Ticks \/ Hop))
    /\ SF_vars(TickDeadline)

Spec == SafeSpec /\ Fairness

-----------------------------------------------------------------------------
(* Properties. *)

\* What the process holds is what the request in flight is using: nothing
\* outlives a request that ended, and freeing one never takes the lookup of the
\* next, which its callback may have started ("a request freed after its
\* completion ran may be freed *under* the next one").
NothingLeaks ==
    /\ held.sockets = Count(conn.socket) /\ held.files = Count(conn.out_fd)
    /\ lookup => conn.id # 0 /\ conn.phase = "RESOLVING"
    /\ pc = "app" /\ conn.id # 0 => (conn.phase = "RESOLVING" => lookup)
                                   /\ (conn.phase # "RESOLVING" => conn.socket)

\* Whenever the loop waits for a session, it waits in the direction the session
\* is blocked in, whichever phase blocked it there, unless it refused to.
ListensForSession ==
    pc \in {"app", "down"} /\ conn.phase \in {"HANDSHAKE", "SENDING", "RECEIVING"}
        => conn.armed \in {IF wants_write THEN "OUT" ELSE "IN", "refused"}

\* A request ends OK only with the whole body, as the server meant it: never with
\* that of a redirect, and never with one cut short, however it was framed.
BodyWhole ==
    result.outcome = "OK" => result.body = result.meant

\* A POST "is never sent twice" and goes to no host but the one the caller
\* named: its bytes go out on one connection, whatever fails afterwards.
SentOnce == conn.job.method = "POST" => reached <= 1

\* What a request holds and listens for is what it needs, at every step.
ResourcesOwned == TypeOK /\ NothingLeaks /\ ListensForSession

\* What went over the wire is what the caller asked for and is told: a whole body
\* or a failure, and a POST at most once.
ExchangeFaithful == BodyWhole /\ SentOnce

\* The silence that ends a request is one: no byte has come or gone for
\* idle_timeout_ms, although the stamps are those of the ticks and a byte may
\* end a wait that was longer than that.
IdleMeansSilence == [][TickIdle => clock.moved = Idle]_vars

\* The detail of a result is '"" on success' (fetch.h:93-94).  It does not hold:
\* what went wrong with one address is still there after another has answered.
DetailOnlyOfFailure ==
    result.outcome = "OK" => ~result.detail

\* The fetcher implements the one-shot request: "On 0 the callback is called
\* exactly once, later, from the loop - never before this returns", and the
\* deadline ends even a request nobody answers.
C == INSTANCE Completion WITH phase <- returned

Completes == C!Spec
=============================================================================
