-------------------------------- MODULE Tls ---------------------------------
(***************************************************************************)
(* The TLS session (src/net/tls.c): what each call makes of what Mbed TLS  *)
(* answers, which event the caller has to wait for, and when it has to     *)
(* come back without one.                                                  *)
(*                                                                         *)
(* What comes from the peer is a sequence of records: application data,    *)
(* a session ticket, a request the session has to answer before it reads   *)
(* on, a close_notify, or the end or failure of the socket underneath.     *)
(* Some of them are inside the session already and raise no event.         *)
(***************************************************************************)
EXTENDS Integers, Sequences, FiniteSetsExt

CONSTANT TicketsPerRead     \* INKWELL_TLS_TICKETS_PER_READ

ASSUME TicketsAssumption == TicketsPerRead \in Nat \ {0}

Data(bytes) == [kind |-> "data", bytes |-> bytes]
Record(kind) == [kind |-> kind, bytes |-> <<>>]
Kinds == {"data", "ticket", "request", "close_notify", "eof", "reset", "fault"}

\* struct inkwell_tls_client: no session, one in its handshake, or one that is up.
NoSession ==
    [state |-> "none", wants_write |-> FALSE, more_to_read |-> FALSE,
     clock_behind |-> FALSE]
Sessions ==
    [state : {"none", "handshaking", "up"}, wants_write : BOOLEAN,
     more_to_read : BOOLEAN, clock_behind : BOOLEAN]

-----------------------------------------------------------------------------
(* What the process keeps for all sessions. *)

\* tls_psa_ready, the registered table and whether it has been parsed.
Process == [psa : BOOLEAN, table : BOOLEAN, roots_ready : BOOLEAN]
NewProcess == [psa |-> FALSE, table |-> FALSE, roots_ready |-> FALSE]

\* inkwell_tls_set_roots(), with a table or without one.
set_roots(lib, given) == [lib EXCEPT !.table = given, !.roots_ready = FALSE]

\* tls_load_roots(): all of the table or nothing, and a failure is not remembered.
tls_load_roots(lib, parses) == [lib EXCEPT !.roots_ready = @ \/ (lib.table /\ parses)]

\* inkwell_tls_client_start(): the process and the session it may leave behind.
\* `bundle` names a file in place of the registered roots; every failure
\* releases the session.
tls_client_start(lib, bundle) ==
    LET begun == [NoSession EXCEPT !.state = "handshaking"]
        with == [lib EXCEPT !.psa = TRUE]
        loaded == {tls_load_roots(with, parses) : parses \in BOOLEAN}
    IN  (IF lib.psa THEN {} ELSE {[lib |-> lib, tls |-> NoSession]})
          \cup {[lib |-> l, tls |-> NoSession] : l \in IF bundle THEN {with} ELSE loaded}
          \cup {[lib |-> l, tls |-> begun] :
                  l \in IF bundle THEN {with} ELSE {l \in loaded : l.roots_ready}}

-----------------------------------------------------------------------------
(* The socket underneath, and errno out of Mbed TLS. *)

\* tls_bio_send() of what the kernel did with the bytes.
tls_bio_send(kernel) ==
    CASE kernel = "took" -> "OK"
      [] kernel = "full" -> "WANT_WRITE"
      [] kernel = "gone" -> "CONN_RESET"
      [] OTHER -> "SEND_FAILED"

\* tls_bio_recv() where the kernel has no bytes to give.
tls_bio_recv(kernel) ==
    CASE kernel = "none" -> "WANT_READ"
      [] kernel \in {"eof", "reset"} -> "CONN_RESET"
      [] OTHER -> "RECV_FAILED"

\* tls_record_error(): the words are left out; that the clock was behind is forgotten.
tls_record_error(tls) == [tls EXCEPT !.clock_behind = FALSE]

\* tls_translate(): the answer, and the session that remembers which way it is
\* blocked.  What blocks and an orderly end are no errors, and record none.
tls_translate(tls, code) ==
    [rc |-> CASE code \in {"WANT_READ", "WANT_WRITE"} -> "EAGAIN"
              [] code = "CLOSE_NOTIFY" -> "ENOTCONN"
              [] code = "CONN_RESET" -> "ECONNRESET"
              [] OTHER -> "EPROTO",
     tls |-> [(IF code \in {"WANT_READ", "WANT_WRITE", "CLOSE_NOTIFY"}
               THEN tls ELSE tls_record_error(tls)) EXCEPT
                !.wants_write = (code = "WANT_WRITE")]]

-----------------------------------------------------------------------------
(* The calls. *)

\* inkwell_tls_client_handshake(), when the library answers with code.  The
\* flags of a certificate that did not check out say whether its date is all
\* that is wrong.
tls_client_handshake(tls, code, flags) ==
    CASE tls.state = "up" -> [rc |-> "OK", tls |-> tls]
      [] code = "OK" /\ tls.state # "up" ->
           [rc |-> "OK", tls |-> [tls EXCEPT !.state = "up", !.wants_write = FALSE]]
      [] code = "VERIFY_FAILED" /\ tls.state # "up" ->
           [rc |-> "EPROTO", tls |-> [tls EXCEPT !.wants_write = FALSE,
                                                 !.clock_behind = (flags = {"future"})]]
      [] OTHER -> tls_translate(tls, code)

\* mbedtls_ssl_read() of the records ahead, behind what it has passed over.
ssl_read(ahead, cap) ==
    LET here == ahead[1]
        taken == Min({cap, Len(here.bytes)})
        rest == SubSeq(here.bytes, taken + 1, Len(here.bytes))
        got(code, bytes, left) == [code |-> code, bytes |-> bytes, left |-> left]
    IN  IF ahead = <<>> THEN got(tls_bio_recv("none"), <<>>, <<>>)
        ELSE CASE here.kind = "data" ->
                    got("OK", SubSeq(here.bytes, 1, taken),
                        IF rest = <<>> THEN Tail(ahead) ELSE <<Data(rest)>> \o Tail(ahead))
               [] here.kind = "request" -> got(tls_bio_send("full"), <<>>, ahead)
               [] here.kind = "close_notify" -> got("CLOSE_NOTIFY", <<>>, ahead)
               [] OTHER -> got(tls_bio_recv(here.kind), <<>>, ahead)

\* Mutant: a run of tickets is answered like an empty socket.
TicketsSpentQuietly(tls) ==
    [rc |-> "EAGAIN", tls |-> [tls EXCEPT !.wants_write = FALSE, !.more_to_read = FALSE]]

\* The ticket budget of one read is spent.
TicketsSpent(tls) ==
    [rc |-> "EAGAIN", tls |-> [tls EXCEPT !.wants_write = FALSE, !.more_to_read = TRUE]]

\* What a read passes over: a ticket, and a request if the socket takes the
\* answer to it.
PassedOver(record, writable) ==
    record.kind = "ticket" \/ (record.kind = "request" /\ writable)

\* inkwell_tls_client_read(): tickets are read over, so many of them in one call.
tls_client_read(tls, ahead, cap, writable) ==
    LET stop == Min({i \in 1 .. Len(ahead) + 1 :
                       i > Len(ahead) \/ ~PassedOver(ahead[i], writable)})
        tickets(n) == Cardinality({i \in 1 .. n : ahead[i].kind = "ticket"})
        spent == {n \in 1 .. stop - 1 : tickets(n) = TicketsPerRead}
        open == [tls EXCEPT !.more_to_read = FALSE]
        read == ssl_read(SubSeq(ahead, stop, Len(ahead)), cap)
        answer == IF read.code = "OK"
                  THEN [rc |-> "OK", tls |-> [open EXCEPT !.wants_write = FALSE]]
                  ELSE tls_translate(open, read.code)
    IN  IF spent # {}
        THEN [rc |-> TicketsSpent(open).rc, tls |-> TicketsSpent(open).tls, bytes |-> <<>>,
              left |-> SubSeq(ahead, Min(spent) + 1, Len(ahead))]
        ELSE [rc |-> answer.rc, tls |-> answer.tls, bytes |-> read.bytes, left |-> read.left]

\* inkwell_tls_client_write(), when the kernel did so with the record.
tls_client_write(tls, kernel) ==
    IF tls_bio_send(kernel) = "OK"
    THEN [rc |-> "OK", tls |-> [tls EXCEPT !.wants_write = FALSE]]
    ELSE tls_translate(tls, tls_bio_send(kernel))

\* tls_release().
tls_release(tls) == [tls EXCEPT !.state = "none"]

\* inkwell_tls_client_stop(); what went wrong stays readable.
tls_client_stop(tls) == [tls_release(tls) EXCEPT !.wants_write = FALSE]

\* inkwell_tls_client_reason().
tls_client_reason(tls) == IF tls.clock_behind THEN "clock" ELSE "tls"

=============================================================================
